---- MODULE Spec2Model ----
(***************************************************************************)
(* A model of the CCNA flashcards application: the result normalizers of   *)
(* the AI tutor (services/gemini.ts, components/StudyAssistant), the       *)
(* handleExplain flow of App.tsx, the auto-continue and JSON-repair        *)
(* revisions of the /api/gemini handler, the server and client response    *)
(* caches with the streaming relay, and the views, login and Pro           *)
(* entitlement of App.tsx.                                                 *)
(*                                                                         *)
(* JavaScript strings are sequences of one-character strings, so that      *)
(* trim, indexOf, split, JSON.parse and the heading regular expression are *)
(* computed character by character.  JavaScript values are tagged records. *)
(***************************************************************************)
EXTENDS Integers, Sequences, FiniteSets, TLC

VARIABLES
  \* --- normalizers ---
  variant,        \* which normalizer runs: "service", "assistant", "assistant5"
  anyObj,         \* the value handed to the normalizer
  fallbackTitle,  \* second argument of the service normalizer
  normOut,        \* its return value (or Throw), NotRun before the call
  \* --- App.tsx tutor pane ---
  appRev,         \* revision of handleExplain: "catch" or "finally"
  currentConcept, aiLoading, aiExplanation,
  calls,          \* the explainConcept calls that await their fetch
  \* --- auto-continue handler ---
  rev,            \* revision of the handler: "while", "for", "single"
  request,        \* the inbound request: method, body, whether the key is set
  script,         \* the upstream replies to the calls issued and to the next
  pc,             \* position of the handler: "idle", "first", "more", "done"
  out,            \* "while" revision: the last GenResult
  fullText,       \* accumulated text (fullText / text in the source)
  finishReason,   \* finish reason tracked by the "for"/"single" revisions
  safetyCounter,  \* loop counter (safetyCounter / i in the source)
  promptLog,      \* prompts of the upstream calls issued, in order
  seams,          \* what each append did: text before, chunk, text after
  response,       \* the handler's HTTP response
  \* --- caches ---
  side,           \* the process observed: "server" or "client"
  now,            \* Date.now()
  ticks,          \* how often the clock has advanced
  serverCache,    \* globalThis.__geminiCache: key -> entry
  memCache,       \* client memCache: key -> entry
  reqs,           \* the server requests that await their upstream call
  lastSet,        \* history: key -> the value, time and pair of its last set
  answered,       \* history: pair -> the latest fresh answer and its expiry
  lastStep,       \* history: what the latest step did
  \* --- App.tsx navigation and entitlement ---
  navRev,         \* revision of the App: "local", "proNow", "appUser"
  view,           \* 'login', 'domainSelect', 'deckSelect', 'study', 'paywall'
  user,           \* user / appUser: null or {email, isPro, isGuest}
  selectedDomainId, selectedDomainName,
  selectedDeckId, selectedDeckName,
  attemptedDeckId, attemptedDeckName,
  currentIndex, isShuffled,
  masteredIds,    \* the set of mastered card ids
  storage,        \* localStorage: ccna_user, ccna_isPro, ccna_mastery, ...
  url,            \* the query parameters of window.location
  isDataLoading, dataError,
  clerk,          \* useUser(): "loading", "in", "out"; "none" without Clerk
  paid,           \* history: this page load handled a paid checkout return
  lastNav         \* history: what the latest step of the App did

normVars  == <<variant, anyObj, fallbackTitle, normOut>>
appVars   == <<appRev, currentConcept, aiLoading, aiExplanation, calls>>
contVars  == <<rev, request, script, pc, out, fullText, finishReason,
               safetyCounter, promptLog, seams, response>>
cacheVars == <<side, now, ticks, serverCache, memCache, reqs, lastSet,
               answered, lastStep>>
navVars   == <<navRev, view, user, selectedDomainId, selectedDomainName,
               selectedDeckId, selectedDeckName, attemptedDeckId,
               attemptedDeckName, currentIndex, isShuffled, masteredIds,
               storage, url, isDataLoading, dataError, clerk, paid, lastNav>>
vars == <<normVars, appVars, contVars, cacheVars, navVars>>

----------------------------------------------------------------------------
(* Strings *)

WS == {" ", "\n", "\t", "\r"}

SetMin(S) == CHOOSE x \in S : \A y \in S : x <= y
SetMax(S) == CHOOSE x \in S : \A y \in S : x >= y

\* String.prototype.trim
Trim(s) ==
  LET keep == {i \in 1..Len(s) : s[i] \notin WS}
  IN IF keep = {} THEN <<>> ELSE SubSeq(s, SetMin(keep), SetMax(keep))

\* String.prototype.trimStart, as the /^\s+/ of a left trim
TrimStart(s) ==
  LET keep == {i \in 1..Len(s) : s[i] \notin WS}
  IN IF keep = {} THEN <<>> ELSE SubSeq(s, SetMin(keep), Len(s))

\* s.startsWith(p, at i): p occurs in s at index i (1-based)
OccursAt(s, p, i) ==
  /\ i >= 1
  /\ i + Len(p) - 1 <= Len(s)
  /\ \A k \in 1..Len(p) : s[i + k - 1] = p[k]

StartsWith(s, p) == OccursAt(s, p, 1)
EndsWith(s, p) == OccursAt(s, p, Len(s) - Len(p) + 1)
Includes(s, p) == \E i \in 1..(Len(s) + 1) : OccursAt(s, p, i)

\* s.indexOf(c) and s.lastIndexOf(c), 1-based, 0 when absent
IndexOf(s, c) ==
  LET at == {i \in 1..Len(s) : s[i] = c} IN IF at = {} THEN 0 ELSE SetMin(at)
LastIndexOf(s, c) ==
  LET at == {i \in 1..Len(s) : s[i] = c} IN IF at = {} THEN 0 ELSE SetMax(at)

\* the indexes of s, in order
Indexes(s) == [i \in 1..Len(s) |-> i]

\* the characters of s at the indexes kept, a sequence of indexes
CharsAt(s, kept) == [k \in 1..Len(kept) |-> s[kept[k]]]

\* s.replace(/\r\n/g, "\n"): every "\r" that a "\n" follows is dropped
CrLfToLf(s) ==
  CharsAt(s, SelectSeq(Indexes(s),
                       LAMBDA i : ~(s[i] = "\r" /\ i < Len(s) /\ s[i + 1] = "\n")))

\* s.split(separator) where the separators are the one-character matches at
\* the indexes P, a sequence of indexes: always at least one piece
Pieces(s, P) ==
  [k \in 1..(Len(P) + 1) |->
     SubSeq(s, IF k = 1 THEN 1 ELSE P[k - 1] + 1,
               IF k = Len(P) + 1 THEN Len(s) ELSE P[k] - 1)]

SplitOn(s, seps) == Pieces(s, SelectSeq(Indexes(s), LAMBDA i : s[i] \in seps))

\* s.split(sep) for a separator of several characters: the matches are taken
\* from the left and do not overlap
RECURSIVE SplitStr(_, _)
SplitStr(s, sep) ==
  LET at == {i \in 1..Len(s) : OccursAt(s, sep, i)}
  IN IF at = {} THEN <<s>>
     ELSE <<SubSeq(s, 1, SetMin(at) - 1)>>
          \o SplitStr(SubSeq(s, SetMin(at) + Len(sep), Len(s)), sep)

\* pieces.join(sep), by halves
RECURSIVE Join(_, _)
Join(pieces, sep) ==
  IF pieces = <<>> THEN <<>>
  ELSE IF Len(pieces) = 1 THEN pieces[1]
  ELSE LET h == Len(pieces) \div 2
       IN Join(SubSeq(pieces, 1, h), sep) \o sep
          \o Join(SubSeq(pieces, h + 1, Len(pieces)), sep)

\* the JavaScript string whose characters are cs, as a TLA+ string (object keys)
RECURSIVE Str(_)
Str(cs) == IF cs = <<>> THEN "" ELSE cs[1] \o Str(Tail(cs))

----------------------------------------------------------------------------
(* JavaScript values: tagged records.  Throw stands for a raised exception. *)

Undefined == [t |-> "undefined"]
Null == [t |-> "null"]
S(cs) == [t |-> "string", s |-> cs]
Num(n) == [t |-> "number", n |-> n]
Bool(b) == [t |-> "boolean", b |-> b]
Arr(a) == [t |-> "array", a |-> a]
Obj(o) == [t |-> "object", o |-> o]
Throw(e) == [t |-> "throw", e |-> e]
IsThrow(v) == v.t = "throw"

\* Boolean(v)
Truthy(v) ==
  CASE v.t = "string" -> v.s # <<>>
    [] v.t = "number" -> v.n # 0
    [] v.t = "boolean" -> v.b
    [] v.t \in {"object", "array"} -> TRUE
    [] OTHER -> FALSE

\* typeof v === "object" (true of null and of arrays)
TypeofObject(v) == v.t \in {"object", "array", "null"}

\* v?.k for a named property k (never an index or "length")
Get(v, k) ==
  IF v.t = "object" /\ k \in DOMAIN v.o THEN v.o[k] ELSE Undefined

\* { ...a, ...b } restricted to named properties
Spread(a, b) ==
  LET fa == IF a.t = "object" THEN a.o ELSE <<>>
      fb == IF b.t = "object" THEN b.o ELSE <<>>
  IN Obj([k \in (DOMAIN fa) \cup (DOMAIN fb) |->
            IF k \in DOMAIN fb THEN fb[k] ELSE fa[k]])

\* String(v); the numbers of the model are the single digits 0..9
RECURSIVE JsString(_)
JsString(v) ==
  CASE v.t = "string" -> v.s
    [] v.t = "null" -> <<"n", "u", "l", "l">>
    [] v.t = "undefined" -> <<"u", "n", "d", "e", "f", "i", "n", "e", "d">>
    [] v.t = "number" ->
         IF v.n = 0 THEN <<"0">>
         ELSE <<(<<"1", "2", "3", "4", "5", "6", "7", "8", "9">>)[v.n]>>
    [] v.t = "boolean" -> IF v.b THEN <<"t", "r", "u", "e">>
                          ELSE <<"f", "a", "l", "s", "e">>
    [] v.t = "array" ->
         Join([i \in 1..Len(v.a) |->
                 IF v.a[i].t \in {"null", "undefined"} THEN <<>>
                 ELSE JsString(v.a[i])], <<",">>)
    [] OTHER -> <<"[", "o", "b", "j", "e", "c", "t", " ", "O", "b", "j",
                  "e", "c", "t", "]">>

----------------------------------------------------------------------------
(* JSON.parse on the character alphabet of the model: objects, arrays,     *)
(* strings with the escapes \" \\ \n \t \r, and true / false / null.       *)
(* Numbers cannot occur: the alphabet has no digits.                       *)

Fail == [ok |-> FALSE]
Parsed(v, next) == [ok |-> TRUE, val |-> v, next |-> next]

\* first index >= i that holds no JSON whitespace (Len + 1 at the end)
SkipWs(s, i) ==
  LET stop == {j \in i..Len(s) : s[j] \notin WS}
  IN IF stop = {} THEN Len(s) + 1 ELSE SetMin(stop)

\* the number of consecutive backslashes in s[i..j-1] that end right before j
RECURSIVE Backslashes(_, _, _)
Backslashes(s, i, j) ==
  IF j <= i \/ s[j - 1] # "\\" THEN 0 ELSE 1 + Backslashes(s, i, j - 1)

\* the body of a string literal, from index i, the character after its opening
\* quote: it ends at the first quote that no backslash escapes
ScanString(s, i) ==
  LET odd(j) == Backslashes(s, i, j) % 2 = 1
      close == {j \in i..Len(s) : s[j] = "\"" /\ ~odd(j)}
      end == SetMin(close)
      \* an escaping backslash is one that an even number of backslashes precedes
      esc(j) == s[j] = "\\" /\ ~odd(j)
      bad == {j \in i..(end - 1) :
                \/ s[j] \in {"\n", "\t", "\r"}
                \/ esc(j) /\ s[j + 1] \notin {"n", "t", "r", "\"", "\\", "/"}}
      kept == SelectSeq([k \in 1..(end - i) |-> i + k - 1], LAMBDA j : ~esc(j))
      char(j) == IF j > i /\ esc(j - 1)
                 THEN CASE s[j] = "n" -> "\n"
                        [] s[j] = "t" -> "\t"
                        [] s[j] = "r" -> "\r"
                        [] OTHER -> s[j]
                 ELSE s[j]
  IN IF close = {} \/ bad # {} THEN Fail
     ELSE Parsed([k \in 1..Len(kept) |-> char(kept[k])], end + 1)

RECURSIVE ParseValue(_, _)
RECURSIVE ParseMembers(_, _, _)
RECURSIVE ParseElements(_, _, _)

\* Each step of the parser is a local operator that takes what was read so
\* far, so that nothing is read twice.

\* after "{" or ",": "key" : value, then "," or "}"
ParseMembers(s, i, acc) ==
  LET \* a repeated key keeps its last value
      close(more, e) ==
        IF e > Len(s) THEN Fail
        ELSE IF s[e] = "}" THEN Parsed(Obj(more), e + 1)
        ELSE IF s[e] = "," THEN ParseMembers(s, e + 1, more)
        ELSE Fail
      value(key, v) ==
        IF ~v.ok THEN Fail
        ELSE close((Str(key.val) :> v.val) @@ acc, SkipWs(s, v.next))
      colon(key, c) ==
        IF c > Len(s) \/ s[c] # ":" THEN Fail
        ELSE value(key, ParseValue(s, c + 1))
      name(key) ==
        IF ~key.ok THEN Fail ELSE colon(key, SkipWs(s, key.next))
      open(k) ==
        IF k > Len(s) \/ s[k] # "\"" THEN Fail
        ELSE name(ScanString(s, k + 1))
  IN open(SkipWs(s, i))

\* after "[" or ",": value, then "," or "]"
ParseElements(s, i, acc) ==
  LET close(more, e) ==
        IF e > Len(s) THEN Fail
        ELSE IF s[e] = "]" THEN Parsed(Arr(more), e + 1)
        ELSE IF s[e] = "," THEN ParseElements(s, e + 1, more)
        ELSE Fail
      value(v) ==
        IF ~v.ok THEN Fail
        ELSE close(Append(acc, v.val), SkipWs(s, v.next))
  IN value(ParseValue(s, i))

ParseValue(s, i) ==
  LET string(str) ==
        IF str.ok THEN Parsed(S(str.val), str.next) ELSE Fail
      object(k, m) ==
        IF m <= Len(s) /\ s[m] = "}" THEN Parsed(Obj(<<>>), m + 1)
        ELSE ParseMembers(s, k + 1, <<>>)
      array(k, m) ==
        IF m <= Len(s) /\ s[m] = "]" THEN Parsed(Arr(<<>>), m + 1)
        ELSE ParseElements(s, k + 1, <<>>)
      value(k) ==
        IF k > Len(s) THEN Fail
        ELSE CASE s[k] = "{" -> object(k, SkipWs(s, k + 1))
               [] s[k] = "[" -> array(k, SkipWs(s, k + 1))
               [] s[k] = "\"" -> string(ScanString(s, k + 1))
               [] OccursAt(s, <<"t", "r", "u", "e">>, k) -> Parsed(Bool(TRUE), k + 4)
               [] OccursAt(s, <<"f", "a", "l", "s", "e">>, k) -> Parsed(Bool(FALSE), k + 5)
               [] OccursAt(s, <<"n", "u", "l", "l">>, k) -> Parsed(Null, k + 4)
               [] OTHER -> Fail
  IN value(SkipWs(s, i))

\* tryParseJson: JSON.parse(s), null when it throws
tryParseJson(s) ==
  LET whole(v) == IF v.ok /\ SkipWs(s, v.next) > Len(s) THEN v.val ELSE Null
  IN whole(ParseValue(s, 1))

----------------------------------------------------------------------------
(* Property names and section labels, as characters *)

KeyChars ==
  [ title |->
        <<"t", "i", "t", "l", "e">>,
    simpleExplanation |->
        <<"s", "i", "m", "p", "l", "e", "E", "x", "p", "l", "a", "n", "a",
        "t", "i", "o", "n">>,
    realWorldExample |->
        <<"r", "e", "a", "l", "W", "o", "r", "l", "d", "E", "x", "a", "m",
        "p", "l", "e">>,
    keyCommands |->
        <<"k", "e", "y", "C", "o", "m", "m", "a", "n", "d", "s">>,
    commonMistakes |->
        <<"c", "o", "m", "m", "o", "n", "M", "i", "s", "t", "a", "k", "e",
        "s">>,
    quickCheck |->
        <<"q", "u", "i", "c", "k", "C", "h", "e", "c", "k">>,
    data |->
        <<"d", "a", "t", "a">>,
    result |->
        <<"r", "e", "s", "u", "l", "t">>,
    text |->
        <<"t", "e", "x", "t">>,
    raw |->
        <<"r", "a", "w">>,
    email |->
        <<"e", "m", "a", "i", "l">>,
    isPro |->
        <<"i", "s", "P", "r", "o">>,
    isGuest |->
        <<"i", "s", "G", "u", "e", "s", "t">>,
    candidates |->
        <<"c", "a", "n", "d", "i", "d", "a", "t", "e", "s">>,
    content |->
        <<"c", "o", "n", "t", "e", "n", "t">>,
    parts |->
        <<"p", "a", "r", "t", "s">>,
    finishReason |->
        <<"f", "i", "n", "i", "s", "h", "R", "e", "a", "s", "o", "n">>,
    promptFeedback |->
        <<"p", "r", "o", "m", "p", "t", "F", "e", "e", "d", "b", "a", "c", "k">> ]

\* insertion order of the properties of the objects the model serializes
KeyOrder ==
  <<"title", "simpleExplanation", "realWorldExample", "keyCommands", "commonMistakes",
    "quickCheck", "data", "result", "text", "raw", "email", "isPro",
    "isGuest", "candidates", "content", "parts", "finishReason",
    "promptFeedback">>

\* the five section labels of the heading regular expression
Labels ==
  << <<"S", "i", "m", "p", "l", "e", " ", "e", "x", "p", "l", "a", "n",
        "a", "t", "i", "o", "n">>,
     <<"R", "e", "a", "l", "-", "w", "o", "r", "l", "d", " ", "e", "x",
        "a", "m", "p", "l", "e">>,
     <<"K", "e", "y", " ", "c", "o", "m", "m", "a", "n", "d", "s">>,
     <<"C", "o", "m", "m", "o", "n", " ", "m", "i", "s", "t", "a", "k",
        "e", "s">>,
     <<"Q", "u", "i", "c", "k", " ", "c", "h", "e", "c", "k">> >>

UpperCase == <<"A", "B", "C", "D", "E", "F", "G", "H", "I", "J", "K", "L", "M",
               "N", "O", "P", "Q", "R", "S", "T", "U", "V", "W", "X", "Y", "Z">>
LowerCase == <<"a", "b", "c", "d", "e", "f", "g", "h", "i", "j", "k", "l", "m",
               "n", "o", "p", "q", "r", "s", "t", "u", "v", "w", "x", "y", "z">>
LowerOf ==
  [c \in {UpperCase[i] : i \in 1..26} |->
     LowerCase[CHOOSE i \in 1..26 : UpperCase[i] = c]]

\* the "i" flag of a regular expression: characters compare in lower case
Lower(c) == IF c \in DOMAIN LowerOf THEN LowerOf[c] ELSE c

OccursAtCI(s, p, i) ==
  /\ i >= 1
  /\ i + Len(p) - 1 <= Len(s)
  /\ \A k \in 1..Len(p) : Lower(s[i + k - 1]) = Lower(p[k])

\* JSON.stringify of a string: " \ and the control characters escaped
Escape(cs) ==
  Join([i \in 1..Len(cs) |->
          CASE cs[i] = "\"" -> <<"\\", "\"">>
            [] cs[i] = "\\" -> <<"\\", "\\">>
            [] cs[i] = "\n" -> <<"\\", "n">>
            [] cs[i] = "\t" -> <<"\\", "t">>
            [] cs[i] = "\r" -> <<"\\", "r">>
            [] OTHER -> <<cs[i]>>], <<>>)

\* JSON.stringify(v) of a string, array, object, boolean or null
RECURSIVE Stringify(_)
Stringify(v) ==
  CASE v.t = "string" -> <<"\"">> \o Escape(v.s) \o <<"\"">>
    [] v.t = "array" ->
         <<"[">> \o Join([i \in 1..Len(v.a) |-> Stringify(v.a[i])], <<",">>)
         \o <<"]">>
    [] v.t = "object" ->
         LET ks == SelectSeq(KeyOrder, LAMBDA k : k \in DOMAIN v.o)
         IN <<"{">>
            \o Join([i \in 1..Len(ks) |->
                       <<"\"">> \o KeyChars[ks[i]] \o <<"\"", ":">>
                       \o Stringify(v.o[ks[i]])], <<",">>)
            \o <<"}">>
    [] v.t = "boolean" -> IF v.b THEN <<"t", "r", "u", "e">>
                          ELSE <<"f", "a", "l", "s", "e">>
    [] OTHER -> <<"n", "u", "l", "l">>

----------------------------------------------------------------------------
(* services/gemini.ts: the client normalizer *)

\* parsed.simpleExplanation.trim().length > 30
MinExplanation == 30
\* normalized.simpleExplanation.length < 10
ShortExplanation == 10
\* bigText.length > 30
BigText == 30

\* cleanText: non-strings become "", CRLF becomes LF, trim (the alphabet of
\* the model has no NUL character to remove)
cleanText(v) ==
  IF v.t = "string"
  THEN S(Trim(CrLfToLf(v.s)))
  ELSE S(<<>>)

\* x.replace(/^[-*]\s*/, "").trim() of asStringArray
StripBullet(cs) ==
  IF cs # <<>> /\ cs[1] \in {"-", "*"} THEN Trim(Tail(cs)) ELSE Trim(cs)

\* asStringArray without the map over cleanText: the items of a list as given
asStringArrayUncleaned(v) ==
  IF v.t = "array" THEN v
  ELSE IF v.t = "string" THEN Arr(<<S(v.s)>>)
  ELSE Arr(<<>>)

\* asStringArray: the cleaned non-empty items of a list, the non-empty lines of
\* a string without their bullets, else the empty list
asStringArray(v) ==
  IF v.t = "array"
  THEN Arr(SelectSeq([i \in 1..Len(v.a) |-> cleanText(v.a[i])],
                     LAMBDA x : Truthy(x)))
  ELSE IF v.t = "string"
  THEN LET lines == SplitOn(v.s, {"\n"})
       IN Arr(SelectSeq([i \in 1..Len(lines) |-> S(StripBullet(lines[i]))],
                        LAMBDA x : Truthy(x)))
  ELSE Arr(<<>>)

looksLikeJsonBlob(cs) ==
  LET t == Trim(cs)
  IN \/ StartsWith(t, <<"{">>) /\ EndsWith(t, <<"}">>)
     \/ StartsWith(t, <<"[">>) /\ EndsWith(t, <<"]">>)

\* extractJsonBlock: from the first "{" to the first index where the brace
\* depth is back to 0, which is the first "}" that as many "{" as "}" precede
\* (itself counted); Null when there is none
extractJsonBlock(cs) ==
  LET t == Trim(cs)
      start == IndexOf(t, "{")
      opens == {i \in start..Len(t) : t[i] = "{"}
      closes == {i \in start..Len(t) : t[i] = "}"}
      balanced == {c \in closes :
                     Cardinality({o \in opens : o < c})
                       = Cardinality({x \in closes : x <= c})}
  IN IF start = 0 \/ balanced = {} THEN Null
     ELSE S(SubSeq(t, start, SetMin(balanced)))

\* the string a || b || ... picks: the first non-empty one, else the last
OrElse(a, b) == IF Truthy(a) THEN a ELSE b

AiTutor == S(<<"A", "I", " ", "T", "u", "t", "o", "r">>)

\* normalizeResult that puts the fallback title over the title it is given
normalizeResultRetitled(input, ft) ==
  Obj([title |-> OrElse(ft, OrElse(cleanText(Get(input, "title")), AiTutor)),
       simpleExplanation |-> cleanText(Get(input, "simpleExplanation")),
       realWorldExample |-> cleanText(Get(input, "realWorldExample")),
       keyCommands |-> asStringArray(Get(input, "keyCommands")),
       commonMistakes |-> asStringArray(Get(input, "commonMistakes")),
       quickCheck |-> asStringArray(Get(input, "quickCheck"))])

normalizeResult(input, ft) ==
  Obj([title |-> OrElse(cleanText(Get(input, "title")), OrElse(ft, AiTutor)),
       simpleExplanation |-> cleanText(Get(input, "simpleExplanation")),
       realWorldExample |-> cleanText(Get(input, "realWorldExample")),
       keyCommands |-> asStringArray(Get(input, "keyCommands")),
       commonMistakes |-> asStringArray(Get(input, "commonMistakes")),
       quickCheck |-> asStringArray(Get(input, "quickCheck"))])

\* t[a..b-1] matches \s*(?:###?\s*)?
Region(t, a, b) ==
  \/ \A k \in a..(b - 1) : t[k] \in WS
  \/ \E n \in {2, 3} : \E h \in (a + n)..b :
       /\ \A k \in h..(b - 1) : t[k] \in WS
       /\ \A k \in (h - n)..(h - 1) : t[k] = "#"
       /\ \A k \in a..(h - n - 1) : t[k] \in WS

\* \s*:?\s*\n from index i, greedy with backtracking: the index after the
\* newline it ends on, 0 when it does not match
HeaderEnd(t, i) ==
  LET end(nl1, nl2) ==
        IF nl2 # {} THEN SetMax(nl2) + 1
        ELSE IF nl1 # {} THEN SetMax(nl1) + 1
        ELSE 0
      after(w, w2) ==
        end({b \in i..(w - 1) : t[b] = "\n"},
            IF w <= Len(t) /\ t[w] = ":"
            THEN {b \in (w + 1)..(w2 - 1) : t[b] = "\n"} ELSE {})
      colon(w) == after(w, SkipWs(t, w + 1))
  IN colon(SkipWs(t, i))

\* the label occurs at L as (?:^|\n)\s*(?:###?\s*)?label\s*:?\s*\n
HeadingAt(t, label, L) ==
  /\ OccursAtCI(t, label, L)
  /\ \E p \in 0..(L - 1) : (p = 0 \/ t[p] = "\n") /\ Region(t, p + 1, L)
  /\ HeaderEnd(t, L + Len(label)) # 0

\* the lookahead (?=\n\s*(?:###?\s*)?(label|...)\s*:?\s*\n|$) at index q
Lookahead(t, q) ==
  \/ q = Len(t) + 1
  \/ /\ t[q] = "\n"
     /\ \E n \in 1..Len(Labels) : \E L \in (q + 1)..Len(t) :
          /\ OccursAtCI(t, Labels[n], L)
          /\ Region(t, q + 1, L)
          /\ HeaderEnd(t, L + Len(Labels[n])) # 0

\* getBlock: the lazy capture after the leftmost heading of the label, trimmed
getBlock(t, label) ==
  LET capture(e) ==
        Trim(SubSeq(t, e, SetMin({x \in e..(Len(t) + 1) : Lookahead(t, x)}) - 1))
      leftmost(at) ==
        IF at = {} THEN <<>>
        ELSE capture(HeaderEnd(t, SetMin(at) + Len(label)))
  IN leftmost({L \in 1..Len(t) : HeadingAt(t, label, L)})

RECURSIVE normalizeFromAny(_, _)
RECURSIVE parseTextToSections(_, _)
RECURSIVE TryCandidates(_, _, _)

\* Each step of the three functions below is a local operator that takes the
\* values computed so far, so that a value is computed once however often the
\* steps after it read it.

parseTextToSections(text, ft) ==
  LET decide(t, directJson, sections) ==
        IF Truthy(directJson) /\ TypeofObject(directJson)
        THEN normalizeFromAny(directJson, ft)
        ELSE IF /\ ~Truthy(sections.o["simpleExplanation"])
                /\ ~Truthy(sections.o["realWorldExample"])
                /\ sections.o["keyCommands"].a = <<>>
                /\ sections.o["commonMistakes"].a = <<>>
                /\ sections.o["quickCheck"].a = <<>>
        THEN normalizeResult(
               Obj([title |-> ft, simpleExplanation |-> S(t),
                    realWorldExample |-> S(<<>>), keyCommands |-> Arr(<<>>),
                    commonMistakes |-> Arr(<<>>), quickCheck |-> Arr(<<>>)]), ft)
        ELSE sections
      sections(block) ==
        normalizeResult(
          Obj([title |-> ft,
               simpleExplanation |-> block[1],
               realWorldExample |-> block[2],
               keyCommands |-> asStringArray(block[3]),
               commonMistakes |-> asStringArray(block[4]),
               quickCheck |-> asStringArray(block[5])]), ft)
      parse(t) ==
        decide(t,
               IF looksLikeJsonBlob(t) THEN tryParseJson(t) ELSE Null,
               sections([n \in 1..Len(Labels) |-> S(getBlock(t, Labels[n]))]))
  IN parse(Trim(CrLfToLf(text)))

\* the for loop over the candidate strings; Undefined when it falls through
TryCandidates(cands, obj, ft) ==
  IF cands = <<>> THEN Undefined
  ELSE
    LET reparse(normalized, p) ==
          IF Truthy(p) /\ TypeofObject(p) THEN normalizeFromAny(p, ft)
          ELSE normalized
        accept(normalized) ==
          reparse(normalized,
                  IF /\ Get(normalized, "simpleExplanation").t = "string"
                     /\ looksLikeJsonBlob(Get(normalized, "simpleExplanation").s)
                  THEN tryParseJson(Get(normalized, "simpleExplanation").s)
                  ELSE Null)
        merge(merged) ==
          accept(normalizeResult(
            Obj([title |-> cleanText(Get(merged, "title")),
                 simpleExplanation |-> cleanText(Get(merged, "simpleExplanation")),
                 realWorldExample |-> cleanText(Get(merged, "realWorldExample")),
                 keyCommands |-> asStringArray(Get(merged, "keyCommands")),
                 commonMistakes |-> asStringArray(Get(merged, "commonMistakes")),
                 quickCheck |-> asStringArray(Get(merged, "quickCheck"))]), ft))
        hasEnough(parsed) ==
          /\ Get(parsed, "simpleExplanation").t = "string"
          /\ Len(Trim(Get(parsed, "simpleExplanation").s)) > MinExplanation
          /\ \/ Get(parsed, "realWorldExample").t = "string"
             \/ Get(parsed, "keyCommands").t = "array"
             \/ Get(parsed, "commonMistakes").t = "array"
             \/ Get(parsed, "quickCheck").t = "array"
        check(parsed) ==
          IF Truthy(parsed) /\ TypeofObject(parsed) /\ hasEnough(parsed)
          THEN merge(Spread(obj, parsed))
          ELSE TryCandidates(Tail(cands), obj, ft)
        try(jsonBlock) ==
          check(IF Truthy(jsonBlock) THEN tryParseJson(jsonBlock.s) ELSE Null)
        candidate(trimmed) ==
          try(IF looksLikeJsonBlob(trimmed) THEN S(trimmed)
              ELSE extractJsonBlock(trimmed))
    IN candidate(Trim(cands[1].s))

\* a ?? b
Nullish(a, b) == IF a.t \in {"null", "undefined"} THEN b ELSE a

normalizeFromAny(any, ft) ==
  LET decide(obj, embedded, normalized, bigText) ==
        IF obj.t = "string" THEN parseTextToSections(obj.s, ft)
        ELSE IF embedded.t # "undefined" THEN embedded
        ELSE IF /\ \/ ~Truthy(Get(normalized, "simpleExplanation"))
                   \/ Len(Get(normalized, "simpleExplanation").s) < ShortExplanation
                /\ Len(bigText.s) > BigText
        THEN parseTextToSections(bigText.s, ft)
        ELSE normalized
      from(obj) ==
        decide(obj,
               TryCandidates(
                 SelectSeq(<<cleanText(Get(obj, "simpleExplanation")),
                             cleanText(Get(obj, "title")),
                             cleanText(Get(obj, "raw")),
                             cleanText(Get(obj, "text"))>>,
                           LAMBDA x : Truthy(x)), obj, ft),
               normalizeResult(
                 Obj([title |-> OrElse(cleanText(Get(obj, "title")), ft),
                      simpleExplanation |-> cleanText(Get(obj, "simpleExplanation")),
                      realWorldExample |-> cleanText(Get(obj, "realWorldExample")),
                      keyCommands |-> asStringArray(Get(obj, "keyCommands")),
                      commonMistakes |-> asStringArray(Get(obj, "commonMistakes")),
                      quickCheck |-> asStringArray(Get(obj, "quickCheck"))]), ft),
               cleanText(OrElse(Get(obj, "text"),
                                OrElse(Get(obj, "raw"), S(<<>>)))))
  IN from(Nullish(Get(any, "data"), Nullish(Get(any, "result"), any)))

----------------------------------------------------------------------------
(* components/StudyAssistant.tsx: the display normalizer, in its two        *)
(* revisions "assistant" (src/components/StudyAssistant.tsx) and            *)
(* "assistant5" (src/unnamed/part_005)                                      *)

\* parsed.simpleExplanation.length > 40 / > 20
MinExplanationAssistant == 40
MinExplanationAssistant5 == 20

\* a code fence; "^" stands for the backtick, which a TLA+ string cannot hold
Fence == <<"^", "^", "^">>

\* t.replace(/FENCE(?:json)?/gi, "") when optJson, t.replace(/FENCE/g, "")
\* otherwise, FENCE being the three backticks of a code fence
RECURSIVE RemoveFences(_, _)
RemoveFences(s, optJson) ==
  LET at == {i \in 1..Len(s) : OccursAt(s, Fence, i)}
      i == SetMin(at)
      n == IF optJson /\ OccursAtCI(s, <<"j", "s", "o", "n">>, i + 3)
           THEN 7 ELSE 3
  IN IF at = {} THEN s
     ELSE SubSeq(s, 1, i - 1) \o RemoveFences(SubSeq(s, i + n, Len(s)), optJson)

\* cleanText of the component: "" for a falsy value, String(s) otherwise,
\* fences removed, trimmed, the lines /^\s*#+\s*/ matches dropped, trimmed
assistantCleanText(v) ==
  IF ~Truthy(v) THEN S(<<>>)
  ELSE LET t == Trim(RemoveFences(RemoveFences(JsString(v), TRUE), FALSE))
           lines == SelectSeq(SplitOn(t, {"\n"}),
                              LAMBDA l : ~StartsWith(TrimStart(l), <<"#">>))
       IN S(Trim(Join(lines, <<"\n">>)))

\* toStringArray: split(/\n|-\s+/g) of a string (the bullet characters of the
\* expression in the source are not in the alphabet of the model)
toStringArray(v) ==
  IF ~Truthy(v) THEN Arr(<<>>)
  ELSE IF v.t = "array"
  THEN Arr(SelectSeq([i \in 1..Len(v.a) |-> assistantCleanText(S(JsString(v.a[i])))],
                     LAMBDA x : Truthy(x)))
  ELSE LET split(s) ==
             LET parts == Pieces(s, SelectSeq(Indexes(s), LAMBDA i :
                            \/ s[i] = "\n"
                            \/ s[i] = "-" /\ i < Len(s) /\ s[i + 1] \in WS))
             IN IF s = <<>> THEN Arr(<<>>)
                ELSE Arr(SelectSeq([i \in 1..Len(parts) |->
                                      assistantCleanText(S(parts[i]))],
                                   LAMBDA x : Truthy(x)))
       IN split(assistantCleanText(S(JsString(v))).s)

\* normalizeList is called by the "assistant" revision and defined nowhere:
\* evaluating the call raises a ReferenceError
normalizeList(v) == Throw("ReferenceError: normalizeList is not defined")

\* extractJsonBlock of the component: from the first "{" to the last "}"
assistantExtractJsonBlock(cs) ==
  LET first == IndexOf(cs, "{")
      last == LastIndexOf(cs, "}")
  IN IF cs = <<>> \/ first = 0 \/ last = 0 \/ last <= first THEN Null
     ELSE S(SubSeq(cs, first, last))

assistantLooksLikeJsonBlob(cs) ==
  LET t == Trim(cs)
      quoted(k) == <<"\"">> \o KeyChars[k] \o <<"\"">>
  IN /\ cs # <<>>
     /\ StartsWith(t, <<"{">>)
     /\ Includes(t, quoted("simpleExplanation"))
     /\ Includes(t, quoted("title"))

\* the six assignments that follow { ...input } or { ...input, ...parsed },
\* the lists through the function the revision calls there
AssignFields(merged, list) ==
  LET List(v) == IF list = "normalizeList" THEN normalizeList(v)
                 ELSE toStringArray(v)
      assign(kc, cm, qc) ==
        IF IsThrow(kc) THEN kc
        ELSE IF IsThrow(cm) THEN cm
        ELSE IF IsThrow(qc) THEN qc
        ELSE Spread(merged,
               Obj([title |-> OrElse(assistantCleanText(Get(merged, "title")), AiTutor),
                    simpleExplanation |-> assistantCleanText(Get(merged, "simpleExplanation")),
                    realWorldExample |-> assistantCleanText(Get(merged, "realWorldExample")),
                    keyCommands |-> kc, commonMistakes |-> cm, quickCheck |-> qc]))
  IN assign(List(Get(merged, "keyCommands")),
            List(Get(merged, "commonMistakes")),
            List(Get(merged, "quickCheck")))

\* the for loop over the candidate strings; Undefined when it falls through
RECURSIVE AssistantCandidates(_, _, _)
AssistantCandidates(cands, input, revision) ==
  IF cands = <<>> THEN Undefined
  ELSE
    LET hasEnoughData(parsed) ==
          /\ Get(parsed, "simpleExplanation").t = "string"
          /\ Len(Get(parsed, "simpleExplanation").s)
               > (IF revision = "assistant" THEN MinExplanationAssistant
                  ELSE MinExplanationAssistant5)
          /\ \/ Get(parsed, "realWorldExample").t = "string"
             \/ Get(parsed, "keyCommands").t = "array"
             \/ Get(parsed, "commonMistakes").t = "array"
        check(parsed) ==
          IF Truthy(parsed) /\ TypeofObject(parsed) /\ hasEnoughData(parsed)
          THEN AssignFields(Spread(input, parsed),
                            IF revision = "assistant" THEN "normalizeList"
                            ELSE "toStringArray")
          ELSE AssistantCandidates(Tail(cands), input, revision)
        try(jsonBlock) ==
          check(IF Truthy(jsonBlock) THEN tryParseJson(jsonBlock.s) ELSE Null)
        candidate(trimmed) ==
          try(IF assistantLooksLikeJsonBlob(trimmed) THEN S(trimmed)
              ELSE assistantExtractJsonBlock(trimmed))
    IN candidate(Trim(cands[1].s))

assistantNormalizeResult(input, revision) ==
  LET candidates ==
        SelectSeq([k \in 1..4 |->
                     LET x == Get(input, (<<"simpleExplanation", "title", "raw", "text">>)[k])
                     IN IF x.t = "string" THEN x ELSE S(<<>>)],
                  LAMBDA x : Truthy(x))
      decide(embedded) ==
        IF embedded.t # "undefined" THEN embedded
        ELSE AssignFields(input, "toStringArray")
  IN IF ~Truthy(input) THEN Null
     ELSE decide(AssistantCandidates(candidates, input, revision))

----------------------------------------------------------------------------
(* The values handed to the normalizers: what res.json() of explainConcept  *)
(* and the result prop of StudyAssistant can hold                           *)

\* 4 characters
ShortText ==
  <<"O", "S", "P", "F">>

\* 29 characters: over the threshold of 20, under those of 30 and 40
MidText ==
  <<"U", "s", "e", "d", " ", "i", "n", " ", "e", "n", "t", "e", "r", "p",
    "r", "i", "s", "e", " ", "b", "a", "c", "k", "b", "o", "n", "e", "s",
    ".">>

\* 45 characters: over every threshold
LongText ==
  <<"O", "S", "P", "F", " ", "i", "s", " ", "a", " ", "l", "i", "n", "k",
    "-", "s", "t", "a", "t", "e", " ", "r", "o", "u", "t", "i", "n", "g",
    " ", "p", "r", "o", "t", "o", "c", "o", "l", " ", "f", "o", "r", " ",
    "I", "P", ".">>

\* a command
CommandText ==
  <<"s", "h", "o", "w", " ", "i", "p", " ", "o", "s", "p", "f">>

\* a list written as text
BulletText ==
  <<"-", " ", "s", "h", "o", "w", " ", "i", "p", " ", "o", "s", "p", "f",
    "\n", "*", " ", "r", "o", "u", "t", "e", "r", " ", "o", "s", "p", "f",
    " ", "\n", "\n", "-">>

\* labelled sections
HeadingText ==
  <<"S", "i", "m", "p", "l", "e", " ", "E", "x", "p", "l", "a", "n", "a",
    "t", "i", "o", "n", ":", "\r", "\n", "O", "S", "P", "F", " ", "i", "s",
    " ", "a", " ", "l", "i", "n", "k", "-", "s", "t", "a", "t", "e", " ",
    "r", "o", "u", "t", "i", "n", "g", " ", "p", "r", "o", "t", "o", "c",
    "o", "l", " ", "f", "o", "r", " ", "I", "P", ".", "\n", "\n", "#", "#",
    " ", "K", "e", "y", " ", "c", "o", "m", "m", "a", "n", "d", "s", "\n",
    "-", " ", "s", "h", "o", "w", " ", "i", "p", " ", "o", "s", "p", "f",
    "\n", "Q", "u", "i", "c", "k", " ", "c", "h", "e", "c", "k", ":", "\n",
    "Q", ":", " ", "I", "s", " ", "O", "S", "P", "F", " ", "l", "i", "n",
    "k", "-", "s", "t", "a", "t", "e", "?", " ", "A", ":", " ", "y", "e",
    "s">>

\* prose before an embedded block
Prose ==
  <<"S", "u", "r", "e", "!", " ", "H", "e", "r", "e", " ", "i", "s", " ",
    "t", "h", "e", " ", "J", "S", "O", "N", ":", " ">>

\* prose after an embedded block
Suffix ==
  <<" ", "H", "o", "p", "e", " ", "t", "h", "i", "s", " ", "h", "e", "l",
    "p", "s", ".">>

\* an object of the target shape whose simpleExplanation is se
TargetShape(se) ==
  Obj([title |-> S(ShortText), simpleExplanation |-> S(se),
       realWorldExample |-> S(MidText),
       keyCommands |-> Arr(<<S(CommandText)>>),
       commonMistakes |-> Arr(<<>>), quickCheck |-> Arr(<<S(MidText)>>)])

\* a list as the generator may return it: with holes and blanks
MixedList == Arr(<<S(CommandText), Null, S(<<" ">>), Num(7), S(<<" ", "a", "\n">>)>>)

\* the texts a string field or a raw body can hold
Texts ==
  {<<>>, ShortText, LongText, HeadingText, BulletText,
   Stringify(Arr(<<S(ShortText)>>)),
   \* a fragment: a lone simpleExplanation
   Stringify(Obj([simpleExplanation |-> S(LongText)])),
   \* a truncated block
   SubSeq(Stringify(TargetShape(LongText)), 1, 60),
   \* JSON whose simpleExplanation is JSON again
   Stringify(Obj([simpleExplanation |-> S(Stringify(TargetShape(LongText))),
                  realWorldExample |-> S(<<>>)]))}
  \cup {Stringify(TargetShape(se)) : se \in {ShortText, MidText, LongText}}
  \cup {Prose \o Stringify(TargetShape(se)) \o Suffix : se \in {MidText, LongText}}

\* the object with the properties of r that are not undefined
Literal(r) == Obj([k \in {f \in DOMAIN r : r[f].t # "undefined"} |-> r[k]])

\* the objects of depth 0: every shape of simpleExplanation with every shape
\* of keyCommands, and the title / text combinations around a few of them
PlainObjects ==
  { Literal([simpleExplanation |-> se, keyCommands |-> kc]) :
      se \in {Undefined, Null, Num(7), MixedList} \cup {S(x) : x \in Texts},
      kc \in {Undefined, Num(7), MixedList, S(BulletText)} }
  \cup
  { Literal([title |-> t, simpleExplanation |-> se, text |-> tx]) :
      t \in {Undefined, S(ShortText), S(Stringify(TargetShape(MidText)))},
      se \in {Undefined, Null, S(ShortText), S(LongText)},
      tx \in {Undefined, S(HeadingText),
              S(Prose \o Stringify(TargetShape(LongText)) \o Suffix)} }

\* a text with a line break as Windows writes it
CrLfText == <<"a", "\r", "\n", "b">>

\* objects that have the target shape already: the six properties, trimmed
\* strings and lists of trimmed strings
TargetObjects ==
  {TargetShape(se) :
     se \in {<<>>, ShortText, LongText, CrLfText,
             Stringify(TargetShape(LongText)),
             Prose \o Stringify(TargetShape(LongText)) \o Suffix}}

\* prose that has braces of its own
BracedProse == <<"U", "s", "e", " ", "{", "x", "}", ":", " ">>

\* a block with a long simpleExplanation and one more section, no title
FragmentBlock ==
  Obj([simpleExplanation |-> S(LongText),
       keyCommands |-> Arr(<<S(CommandText)>>)])

\* objects with one field that holds prose and then the block
EmbeddedObjects ==
  {Literal([k \in {"title", "simpleExplanation", "raw", "text"} |->
              IF k = field THEN S(prose \o Stringify(FragmentBlock))
              ELSE Undefined]) :
     field \in {"title", "simpleExplanation", "raw", "text"},
     prose \in {Prose, BracedProse}}

\* texts of labelled sections: each label on a line of its own, with a
\* colon, then the body, which may be empty
Section(label, body) == [label |-> label, body |-> body]

Labelled(parts) ==
  Join([i \in 1..Len(parts) |->
          Labels[parts[i].label] \o <<":", "\n">> \o parts[i].body \o <<"\n">>],
       <<>>)

LabelledParts ==
  {<<Section(1, LongText), Section(2, MidText)>>,
   <<Section(1, <<>>), Section(2, MidText)>>,
   <<Section(1, LongText), Section(2, <<>>)>>,
   <<Section(2, MidText), Section(3, CommandText)>>}

\* how deep the model wraps a value in { data: ... } and { result: ... }
MaxWrap == 1

RECURSIVE Wrapped(_)
Wrapped(n) ==
  IF n = 0
  THEN {Null, Undefined, Num(7), Bool(FALSE), MixedList} \cup {S(x) : x \in Texts}
       \cup {S(Labelled(parts)) : parts \in LabelledParts}
       \cup PlainObjects \cup TargetObjects \cup EmbeddedObjects
  ELSE Wrapped(n - 1)
       \cup {Obj([data |-> x]) : x \in Wrapped(n - 1)}
       \cup {Obj([result |-> x]) : x \in Wrapped(n - 1)}
       \cup {Obj([raw |-> x]) : x \in {S(y) : y \in Texts}}

NotRun == [t |-> "notrun"]

\* no step of a handler has been taken
NoStep == [op |-> "none"]

----------------------------------------------------------------------------
(* The tutor result type and the normalizer specification *)

ResultKeys == {"title", "simpleExplanation", "realWorldExample",
               "keyCommands", "commonMistakes", "quickCheck"}

IsStringList(v) ==
  v.t = "array" /\ \A i \in 1..Len(v.a) : v.a[i].t = "string"

\* AiTutorResult: six properties, three strings and three lists of strings
IsAiTutorResult(r) ==
  /\ r.t = "object"
  /\ ResultKeys \subseteq DOMAIN r.o
  /\ \A k \in {"title", "simpleExplanation", "realWorldExample"} :
       r.o[k].t = "string"
  /\ \A k \in {"keyCommands", "commonMistakes", "quickCheck"} :
       IsStringList(r.o[k])

\* the parts of the state a specification does not use stay as they start
IdleNorm ==
  /\ variant = "none" /\ anyObj = Undefined
  /\ fallbackTitle = Undefined /\ normOut = NotRun

IdleApp ==
  /\ appRev = "none" /\ currentConcept = <<>> /\ aiLoading = FALSE
  /\ aiExplanation = Null /\ calls = <<>>

IdleCont ==
  /\ rev = "none" /\ request = Undefined /\ script = <<>> /\ pc = "idle"
  /\ out = Undefined /\ fullText = <<>> /\ finishReason = Undefined
  /\ safetyCounter = 0 /\ promptLog = <<>> /\ seams = <<>>
  /\ response = Undefined

IdleCache ==
  /\ side = "none" /\ now = 0 /\ ticks = 0 /\ serverCache = <<>>
  /\ memCache = <<>> /\ reqs = <<>> /\ lastSet = <<>> /\ answered = <<>>
  /\ lastStep = NoStep

IdleNav ==
  /\ navRev = "none" /\ view = "login" /\ user = Null
  /\ selectedDomainId = Null /\ selectedDomainName = Null
  /\ selectedDeckId = Null /\ selectedDeckName = Null
  /\ attemptedDeckId = Null /\ attemptedDeckName = Null
  /\ currentIndex = 0 /\ isShuffled = FALSE /\ masteredIds = {}
  /\ storage = <<>> /\ url = <<>> /\ isDataLoading = FALSE
  /\ dataError = Null /\ clerk = "none" /\ paid = FALSE
  /\ lastNav = NoStep

InitNorm ==
  /\ variant \in {"service", "assistant", "assistant5"}
  /\ anyObj \in Wrapped(MaxWrap)
  /\ fallbackTitle \in {S(<<>>), S(CommandText)}
  \* the component is handed a non-null result object and takes no title
  /\ variant # "service" => anyObj.t = "object" /\ fallbackTitle = S(<<>>)
  /\ normOut = NotRun
  /\ IdleApp /\ IdleCont /\ IdleCache /\ IdleNav

\* explainConcept line 310: normalizeFromAny(candidate, concept)
ServiceNormalize ==
  /\ variant = "service" /\ normOut = NotRun
  /\ normOut' = normalizeFromAny(anyObj, fallbackTitle)
  /\ UNCHANGED <<variant, anyObj, fallbackTitle, appVars, contVars, cacheVars,
               navVars>>

\* StudyAssistant: useMemo(() => normalizeResult(result), [result])
AssistantNormalize ==
  /\ variant \in {"assistant", "assistant5"} /\ normOut = NotRun
  /\ normOut' = assistantNormalizeResult(anyObj, variant)
  /\ UNCHANGED <<variant, anyObj, fallbackTitle, appVars, contVars, cacheVars,
               navVars>>

NextNorm == ServiceNormalize \/ AssistantNormalize

SpecNorm == InitNorm /\ [][NextNorm]_vars

\* C1: whatever normalizeFromAny of the client service is handed (a string,
\* null, an object, an object wrapped in data / result / text / raw, embedded
\* JSON in a field), it returns, and what it returns has the six properties
\* of a tutor result: three strings and three lists of strings.
C1_ServiceReturnsTutorResult ==
  (variant = "service" /\ normOut # NotRun) => IsAiTutorResult(normOut)

\* C1 witness: a wrapped object whose text field holds prose around a JSON
\* block has been normalized from that block.
C1_Witness ==
  /\ variant = "service" /\ normOut # NotRun
  /\ Get(Get(anyObj, "data"), "text")
       = S(Prose \o Stringify(TargetShape(LongText)) \o Suffix)
  /\ Get(Get(anyObj, "data"), "simpleExplanation") = Null
  /\ Get(normOut, "simpleExplanation") = S(LongText)
  /\ Get(normOut, "keyCommands") = Arr(<<S(CommandText)>>)

\* C2 reaches the merge path of the component revision that calls
\* normalizeList: the run ends in a ReferenceError instead of a result.
C2_FailingRun ==
  /\ variant = "assistant" /\ IsThrow(normOut)
  /\ Get(anyObj, "simpleExplanation")
       = S(Prose \o Stringify(TargetShape(LongText)) \o Suffix)

\* C2: for every non-null result, normalizeResult of StudyAssistant returns,
\* without raising, a result with the six properties correctly typed, on the
\* clean-up path and on the path that merges an embedded JSON object.
C2_AssistantReturnsTutorResult ==
  (variant \in {"assistant", "assistant5"} /\ normOut # NotRun)
    => IsAiTutorResult(normOut)

\* a text as cleanText leaves it: no CR-LF within it, no space around it
IsClean(v) == v.t = "string" /\ cleanText(v) = v

\* an object of the target shape: a title that is not empty, the six
\* properties and no other, trimmed strings, lists of trimmed non-empty strings
IsTargetInput(o) ==
  /\ IsAiTutorResult(o) /\ DOMAIN o.o = ResultKeys
  /\ o.o.title.s # <<>>
  /\ \A k \in {"title", "simpleExplanation", "realWorldExample"} :
       Trim(o.o[k].s) = o.o[k].s
  /\ \A k \in {"keyCommands", "commonMistakes", "quickCheck"} :
       \A i \in DOMAIN o.o[k].a :
         o.o[k].a[i].s # <<>> /\ Trim(o.o[k].a[i].s) = o.o[k].a[i].s

\* the text holds a block that the normalizer takes for the answer itself: a
\* JSON object with a simpleExplanation of more than 30 characters and one
\* more section
HoldsAnswer(cs) ==
  LET block == IF looksLikeJsonBlob(cs) THEN S(cs) ELSE extractJsonBlock(cs)
      parsed == IF Truthy(block) THEN tryParseJson(block.s) ELSE Null
  IN /\ parsed.t = "object"
     /\ Get(parsed, "simpleExplanation").t = "string"
     /\ Len(Trim(Get(parsed, "simpleExplanation").s)) > MinExplanation
     /\ \/ Get(parsed, "realWorldExample").t = "string"
        \/ \E k \in {"keyCommands", "commonMistakes", "quickCheck"} :
             Get(parsed, k).t = "array"

StringsOf(r) ==
  {r.o[k].s : k \in {"title", "simpleExplanation", "realWorldExample"}}
  \cup UNION {{r.o[k].a[i].s : i \in DOMAIN r.o[k].a} :
                k \in {"keyCommands", "commonMistakes", "quickCheck"}}

\* C16: when a candidate field (simpleExplanation, title, raw or text) of
\* the object holds prose and then a balanced block with a simpleExplanation
\* of more than 30 characters and one more section, extractJsonBlock returns
\* that block, the result is built from the fields of the block, and no
\* string of the result holds any of the prose.
C16_EmbeddedBlockRecovered ==
  \A field \in {"title", "simpleExplanation", "raw", "text"} :
    \A prose \in {Prose, BracedProse} :
      (/\ variant = "service" /\ normOut # NotRun
       /\ anyObj = Literal([k \in {"title", "simpleExplanation", "raw", "text"} |->
                              IF k = field THEN S(prose \o Stringify(FragmentBlock))
                              ELSE Undefined]))
        => /\ extractJsonBlock(prose \o Stringify(FragmentBlock))
                = S(Stringify(FragmentBlock))
           /\ normOut.o.simpleExplanation = FragmentBlock.o.simpleExplanation
           /\ normOut.o.keyCommands = FragmentBlock.o.keyCommands
           /\ \A str \in StringsOf(normOut) : ~Includes(str, Trim(prose))

\* the field of the result that belongs to each label, in the order of Labels
FieldOf ==
  <<"simpleExplanation", "realWorldExample", "keyCommands", "commonMistakes",
    "quickCheck">>

\* what the field of label n holds when the text is split at its labels: the
\* body of the section (as a list of its lines for the three lists), nothing
\* when the text has no such section
SectionField(parts, n) ==
  LET at == {i \in 1..Len(parts) : parts[i].label = n}
      body == IF at = {} THEN <<>> ELSE parts[SetMin(at)].body
  IN IF n <= 2 THEN S(body) ELSE asStringArray(S(body))

\* C17: a text of labelled sections is split at its labels: each field holds
\* the text between its own label and the next label or the end, a section
\* with an empty body gives an empty field, and nothing of one section is in
\* the field of another.
C17_SectionsSplitAtLabels ==
  \A parts \in LabelledParts :
    (variant = "service" /\ normOut # NotRun /\ anyObj = S(Labelled(parts)))
      => \A n \in 1..Len(Labels) : normOut.o[FieldOf[n]] = SectionField(parts, n)

\* the raw text of a payload: the payload itself when it is a string, its
\* one property when it is { raw: text } or { text: text }
HasRawText(v) ==
  \/ v.t = "string"
  \/ /\ v.t = "object" /\ DOMAIN v.o \in {{"raw"}, {"text"}}
     /\ \A k \in DOMAIN v.o : v.o[k].t = "string"

RawText(v) ==
  IF v.t = "string" THEN v.s ELSE v.o[CHOOSE k \in DOMAIN v.o : TRUE].s

\* nothing structured in the text: it is no JSON object, holds no block that
\* the normalizer takes for the answer, and has no section label
Unstructured(cs) ==
  /\ tryParseJson(Trim(cs)).t # "object"
  /\ ~HoldsAnswer(cs)
  /\ \A n \in 1..Len(Labels) : \A L \in 1..Len(cs) : ~HeadingAt(cs, Labels[n], L)

\* C18: when nothing structured can be recovered from a raw text that is not
\* blank, the result has the whole trimmed text as its simpleExplanation, and
\* an empty realWorldExample and three empty lists.
C18_RawTextKept ==
  (/\ variant = "service" /\ normOut # NotRun
   /\ HasRawText(anyObj)
   /\ Trim(RawText(anyObj)) # <<>>
   /\ Unstructured(RawText(anyObj)))
    => /\ normOut.o.simpleExplanation = S(Trim(RawText(anyObj)))
       /\ normOut.o.realWorldExample = S(<<>>)
       /\ \A k \in {"keyCommands", "commonMistakes", "quickCheck"} :
            normOut.o[k] = Arr(<<>>)

----------------------------------------------------------------------------
(* api/pro-status.ts: three revisions of the /api/gemini handler that       *)
(* continue a response the generator cut off: "while" (lines 161-247),      *)
(* "for" (288-347) and "single" (494-552)                                   *)

\* "MAX_TOKENS"
MaxTokens ==
  S(<<"M", "A", "X", "_", "T", "O", "K", "E", "N", "S">>)

\* "STOP"
Stop == S(<<"S", "T", "O", "P">>)

\* "gemini-2.5-flash"
DefaultModel ==
  S(<<"g", "e", "m", "i", "n", "i", "-", "2", ".", "5", "-", "f", "l", "a",
      "s", "h">>)

\* chosenModel: body.model trimmed when it is a non-blank string, else the
\* default (the environment sets no GEMINI_MODEL)
chosenModel(model) ==
  IF model.t = "string" /\ Trim(model.s) # <<>> THEN S(Trim(model.s))
  ELSE DefaultModel

\* v?.[0]
First(v) ==
  IF v.t = "array" /\ v.a # <<>> THEN v.a[1]
  ELSE IF v.t = "string" /\ v.s # <<>> THEN S(<<v.s[1]>>)
  ELSE Undefined

\* parts.map((p) => p?.text).filter(Boolean).join("")
JoinParts(parts) ==
  LET texts == SelectSeq([i \in 1..Len(parts) |-> Get(parts[i], "text")],
                         LAMBDA x : Truthy(x))
  IN S(Join([i \in 1..Len(texts) |-> JsString(texts[i])], <<>>))

\* data?.candidates?.[0]?.content?.parts
PartsOf(data) ==
  Get(Get(First(Get(data, "candidates")), "content"), "parts")

\* extractText of the "while" revision: parts ?? [], then map; a value that is
\* not a list has no map method
extractTextWhile(data) ==
  LET parts == Nullish(PartsOf(data), Arr(<<>>))
  IN IF parts.t # "array" THEN Throw("TypeError: parts.map is not a function")
     ELSE JoinParts(parts.a)

\* extractText of the "for" and "single" revisions: "" unless parts is a list
extractText(data) ==
  LET parts == PartsOf(data)
  IN IF parts.t # "array" THEN S(<<>>) ELSE JoinParts(parts.a)

\* data?.candidates?.[0]?.finishReason
getFinishReason(data) == Get(First(Get(data, "candidates")), "finishReason")

\* generateOnce: the GenResult of an upstream reply, or what it throws
generateOnce(reply) ==
  IF IsThrow(reply) THEN reply
  ELSE LET text == extractTextWhile(reply.data)
       IN IF IsThrow(text) THEN text
          ELSE [t |-> "gen", status |-> reply.status, data |-> reply.data,
                text |-> text, finishReason |-> getFinishReason(reply.data)]

\* String(status).startsWith("2"), for the three-digit status codes of HTTP
Is2xx(status) == status \div 100 = 2

WhilePromptHead ==
  <<"C", "o", "n", "t", "i", "n", "u", "e", " ", "E", "X", "A", "C", "T",
    "L", "Y", " ", "w", "h", "e", "r", "e", " ", "y", "o", "u", " ", "l",
    "e", "f", "t", " ", "o", "f", "f", ".", "\n", "D", "o", " ", "N", "O",
    "T", " ", "r", "e", "s", "t", "a", "r", "t", ",", " ", "d", "o", " ",
    "N", "O", "T", " ", "r", "e", "p", "e", "a", "t", " ", "h", "e", "a",
    "d", "i", "n", "g", "s", ",", " ", "d", "o", " ", "N", "O", "T", " ",
    "a", "d", "d", " ", "i", "n", "t", "r", "o", "d", "u", "c", "t", "i",
    "o", "n", "s", ".", "\n", "O", "u", "t", "p", "u", "t", " ", "O", "N",
    "L", "Y", " ", "t", "h", "e", " ", "r", "e", "m", "a", "i", "n", "i",
    "n", "g", " ", "c", "o", "n", "t", "e", "n", "t", ".", "\n", "-", "-",
    "-", "-", "-", "\n", "C", "O", "N", "T", "E", "N", "T", " ", "S", "O",
    " ", "F", "A", "R", ":", "\n">>

ForPromptHead ==
  <<"C", "o", "n", "t", "i", "n", "u", "e", " ", "E", "X", "A", "C", "T",
    "L", "Y", " ", "w", "h", "e", "r", "e", " ", "y", "o", "u", " ", "l",
    "e", "f", "t", " ", "o", "f", "f", ".", " ", "D", "o", " ", "N", "O",
    "T", " ", "r", "e", "p", "e", "a", "t", " ", "e", "a", "r", "l", "i",
    "e", "r", " ", "t", "e", "x", "t", ".", "\n", "\n", "-", "-", "-", "\n",
    "P", "R", "E", "V", "I", "O", "U", "S", " ", "O", "U", "T", "P", "U",
    "T", ":", "\n">>

ForPromptTail ==
  <<"\n", "-", "-", "-", "\n", "C", "O", "N", "T", "I", "N", "U", "E", ":">>

SinglePromptHead ==
  <<"C", "o", "n", "t", "i", "n", "u", "e", " ", "E", "X", "A", "C", "T",
    "L", "Y", " ", "w", "h", "e", "r", "e", " ", "y", "o", "u", " ", "l",
    "e", "f", "t", " ", "o", "f", "f", ".", " ", "D", "o", " ", "n", "o",
    "t", " ", "r", "e", "p", "e", "a", "t", ".", " ", "P", "i", "c", "k",
    " ", "u", "p", " ", "m", "i", "d", "-", "s", "e", "n", "t", "e", "n",
    "c", "e", " ", "i", "f", " ", "n", "e", "e", "d", "e", "d", ".", "\n",
    "\n", "-", "-", "-", "\n", "\n", "P", "R", "E", "V", "I", "O", "U", "S",
    " ", "O", "U", "T", "P", "U", "T", ":", "\n">>

SinglePromptTail ==
  <<"\n", "\n", "-", "-", "-", "\n", "\n", "C", "O", "N", "T", "I", "N",
    "U", "E", ":">>

\* the text the "single" revision answers with when it has none ("'" stands
\* for the typographic apostrophe of the source)
FallbackText ==
  <<"I", " ", "c", "o", "u", "l", "d", "n", "'", "t", " ", "g", "e", "n",
    "e", "r", "a", "t", "e", " ", "a", " ", "f", "u", "l", "l", " ", "e",
    "x", "p", "l", "a", "n", "a", "t", "i", "o", "n", " ", "f", "o", "r",
    " ", "t", "h", "a", "t", " ", "o", "n", "e", ".", " ", "T", "r", "y",
    " ", "a", "g", "a", "i", "n", " ", "o", "r", " ", "a", "s", "k", " ",
    "a", " ", "s", "l", "i", "g", "h", "t", "l", "y", " ", "d", "i", "f",
    "f", "e", "r", "e", "n", "t", " ", "q", "u", "e", "s", "t", "i", "o",
    "n", ".">>

\* the continuation prompt of each revision around the text so far
continuationPrompt(revision, text) ==
  CASE revision = "while" -> WhilePromptHead \o text
    [] revision = "for" -> ForPromptHead \o text \o ForPromptTail
    [] OTHER -> SinglePromptHead \o text \o SinglePromptTail

\* safetyCounter < 2
SafetyLimit == 2
\* i < 2
ForLimit == 2

\* a fixed text of the source: an error message or a hint
Msg(m) == [t |-> "message", m |-> m]

\* the state of one handler invocation
Cur ==
  [pc |-> pc, out |-> out, fullText |-> fullText,
   finishReason |-> finishReason, safetyCounter |-> safetyCounter,
   promptLog |-> promptLog, seams |-> seams, response |-> response]

\* return res.status(status).json(body)
return(h, status, body) ==
  [h EXCEPT !.pc = "done", !.response = [status |-> status, body |-> body]]

\* issue with a stale prompt: the text as it was before the latest append
issueStale(h, revision) ==
  [h EXCEPT !.pc = "more",
            !.promptLog = Append(@, continuationPrompt(revision,
                            IF h.seams = <<>> THEN <<>>
                            ELSE h.seams[Len(h.seams)].before))]

\* await generateOnce / generateContent with the continuation prompt
issue(h, revision) ==
  [h EXCEPT !.pc = "more",
            !.promptLog = Append(@, continuationPrompt(revision, h.fullText))]

\* what an append did
Seam(before, chunk, after) ==
  [before |-> before, chunk |-> chunk, after |-> after]

\* the catch block, answering "Server error" whatever was thrown
serverErrorGeneric(h, e) == return(h, 500, Obj([error |-> Msg("Server error")]))

\* the 500 answers: of the catch block, and of a failed first call
serverError(h, e) == return(h, 500, Obj([error |-> Msg(e)]))

\* requestFailed that leaves the upstream payload out
requestFailedNoDetails(h, status, data) ==
  return(h, 500, Obj([error |-> Msg("Gemini request failed"),
                      status |-> Num(status),
                      model |-> chosenModel(request.model)]))

requestFailed(h, status, data) ==
  return(h, 500, Obj([error |-> Msg("Gemini request failed"),
                      status |-> Num(status),
                      details |-> data,
                      model |-> chosenModel(request.model)]))

\* --- "while" revision, lines 205-243 ---

\* whileGuard with the bound off by one: a third continuation is allowed
whileGuardOffByOne(fr, sc) == fr = MaxTokens /\ sc < SafetyLimit + 1

\* out.finishReason === "MAX_TOKENS" && safetyCounter < 2
whileGuard(fr, sc) == fr = MaxTokens /\ sc < SafetyLimit

whileReturn(h) ==
  return(h, 200, Obj([text |-> S(h.fullText),
                      model |-> chosenModel(request.model),
                      finishReason |-> OrElse(h.out.finishReason, Stop)]))

whileLoop(h) ==
  IF whileGuard(h.out.finishReason, h.safetyCounter)
  THEN issue([h EXCEPT !.safetyCounter = @ + 1], "while")
  ELSE whileReturn(h)

firstWhile(h, reply) ==
  LET o == generateOnce(reply)
      g == [h EXCEPT !.out = o]
  IN IF IsThrow(o) THEN serverError(h, o.e)
     ELSE IF o.status = 404
     THEN return(g, 404, Obj([error |-> Msg("Model not found for this API key / endpoint"),
                              triedModel |-> chosenModel(request.model),
                              details |-> o.data,
                              hint |-> Msg("Open /api/gemini?list=1 to see available models for your key.")]))
     ELSE IF ~Is2xx(o.status) THEN requestFailed(g, o.status, o.data)
     ELSE whileLoop([g EXCEPT !.fullText = o.text.s, !.safetyCounter = 0])

moreWhile(h, reply) ==
  LET o == generateOnce(reply)
      g == [h EXCEPT !.out = o]
      more == Trim(o.text.s)
      base == IF EndsWith(h.fullText, <<"\n">>) THEN h.fullText
              ELSE h.fullText \o <<"\n">>
  IN IF IsThrow(o) THEN serverError(h, o.e)
     ELSE IF ~Is2xx(o.status) THEN whileReturn(g)
     ELSE IF more = <<>> THEN whileReturn(g)
     ELSE whileLoop([g EXCEPT !.fullText = base \o more,
                              !.seams = Append(@, Seam(h.fullText, o.text.s,
                                                       base \o more))])

\* --- "for" revision, lines 312-343 ---

\* i < 2 && finishReason === "MAX_TOKENS" && text.trim().length > 0
forGuard(i, fr, text) ==
  i < ForLimit /\ fr = MaxTokens /\ Len(Trim(text)) > 0

\* res.json leaves out a finishReason that is undefined
textPayload(h) ==
  Literal([text |-> S(h.fullText), model |-> chosenModel(request.model),
           finishReason |-> h.finishReason])

forLoop(h) ==
  IF forGuard(h.safetyCounter, h.finishReason, h.fullText)
  THEN issue(h, "for")
  ELSE return(h, 200, textPayload(h))

firstFor(h, reply) ==
  IF IsThrow(reply) THEN serverError(h, reply.e)
  ELSE IF ~Is2xx(reply.status) THEN requestFailed(h, reply.status, reply.data)
  ELSE forLoop([h EXCEPT !.fullText = extractText(reply.data).s,
                         !.finishReason = getFinishReason(reply.data),
                         !.safetyCounter = 0])

moreFor(h, reply) ==
  LET more == extractText(reply.data).s
      text == h.fullText \o <<"\n", "\n">> \o more
  IN IF IsThrow(reply) THEN serverError(h, reply.e)
     ELSE IF ~Is2xx(reply.status) THEN return(h, 200, textPayload(h))
     ELSE IF Trim(more) = <<>> THEN return(h, 200, textPayload(h))
     ELSE forLoop([h EXCEPT !.fullText = text,
                            !.finishReason = getFinishReason(reply.data),
                            !.safetyCounter = @ + 1,
                            !.seams = Append(@, Seam(h.fullText, more, text))])

\* --- "single" revision, lines 516-548 ---

\* if (!text.trim()) text = the fallback; then the 200 answer
singleReturn(h) ==
  LET g == IF Trim(h.fullText) = <<>> THEN [h EXCEPT !.fullText = FallbackText]
           ELSE h
  IN return(g, 200, textPayload(g))

firstSingle(h, reply) ==
  LET text == extractText(reply.data).s
      fr == getFinishReason(reply.data)
      g == [h EXCEPT !.fullText = text, !.finishReason = fr]
  IN IF IsThrow(reply) THEN serverError(h, reply.e)
     ELSE IF ~Is2xx(reply.status) THEN requestFailed(h, reply.status, reply.data)
     ELSE IF fr = MaxTokens /\ Len(text) > 0 THEN issue(g, "single")
     ELSE singleReturn(g)

moreSingle(h, reply) ==
  LET text2 == extractText(reply.data)
      text == h.fullText \o <<"\n", "\n">> \o text2.s
  IN IF IsThrow(reply) THEN serverError(h, reply.e)
     ELSE IF Is2xx(reply.status) /\ Truthy(text2)
     THEN singleReturn([h EXCEPT !.fullText = text,
                                 !.seams = Append(@, Seam(h.fullText, text2.s, text))])
     ELSE singleReturn(h)

\* --- the requests and the upstream replies of the model ---

UserPrompt ==
  <<"E", "x", "p", "l", "a", "i", "n", " ", "O", "S", "P", "F">>

PostRequest ==
  [method |-> "POST", prompt |-> S(UserPrompt), model |-> Undefined,
   key |-> TRUE]

Requests ==
  {PostRequest,
   [PostRequest EXCEPT !.method = "GET"],
   [PostRequest EXCEPT !.method = "PUT"],
   [PostRequest EXCEPT !.prompt = Undefined],
   [PostRequest EXCEPT !.prompt = Num(7)],
   [PostRequest EXCEPT !.key = FALSE]}

\* what fetch and r.json() hand back: a status and a body, or a rejection
Reply(status, data) == [t |-> "reply", status |-> status, data |-> data]

Part(cs) == Obj([text |-> S(cs)])

\* a generateContent body with one candidate
Generated(parts, fr) ==
  Obj([candidates |->
         Arr(<<Literal([content |-> Obj([parts |-> parts]),
                        finishReason |-> fr])>>)])

UpstreamReplies ==
  {Reply(200, Generated(Arr(<<Part(<<"O", "S", "P", "F">>)>>), MaxTokens)),
   \* leading whitespace, a trailing newline
   Reply(200, Generated(Arr(<<Part(<<" ", "i", "s", "\n">>)>>), MaxTokens)),
   \* several parts, one without text
   Reply(200, Generated(Arr(<<Part(<<"l", "i", "n", "k">>), Obj(<<>>),
                              Part(<<"-", "s", "t", "a", "t", "e">>)>>), Stop)),
   \* blank text
   Reply(200, Generated(Arr(<<Part(<<" ">>)>>), MaxTokens)),
   \* no candidate at all
   Reply(200, Obj([promptFeedback |-> Obj(<<>>)])),
   \* parts that is not a list
   Reply(200, Generated(S(<<"x">>), Undefined)),
   Reply(500, Obj([error |-> Obj(<<>>)])),
   Reply(404, Obj([error |-> Obj(<<>>)])),
   Throw("fetch failed")}

----------------------------------------------------------------------------
(* The auto-continue specification: one request, handled to its response *)

InitCont ==
  /\ rev \in {"while", "for", "single"}
  /\ request \in Requests
  /\ script = <<>>
  /\ pc = "idle" /\ out = Undefined /\ fullText = <<>>
  /\ finishReason = Undefined /\ safetyCounter = 0 /\ promptLog = <<>>
  /\ seams = <<>> /\ response = Undefined
  /\ IdleNorm /\ IdleApp /\ IdleCache /\ IdleNav

\* the variables of the invocation take the values of h (the actions bind h
\* to the value the handler computes, once)
Becomes(h) ==
  /\ pc' = h.pc /\ out' = h.out /\ fullText' = h.fullText
  /\ finishReason' = h.finishReason /\ safetyCounter' = h.safetyCounter
  /\ promptLog' = h.promptLog /\ seams' = h.seams /\ response' = h.response
  /\ UNCHANGED <<rev, request, normVars, navVars, appVars, cacheVars>>

\* handler, up to the first await: getKey, the method, the prompt, then the
\* first upstream call; a request that is turned away meets no upstream
Reject ==
  /\ pc = "idle"
  /\ \/ ~request.key
     \/ request.method # "POST"
     \/ ~Truthy(request.prompt) \/ request.prompt.t # "string"
  /\ \E h \in {
       IF ~request.key
       THEN serverError(Cur, "Missing GEMINI_API_KEY environment variable")
       ELSE IF request.method = "GET"
       THEN return(Cur, 200, Obj([ok |-> Bool(TRUE)]))
       ELSE IF request.method # "POST"
       THEN return(Cur, 405, Obj([error |-> Msg("Method not allowed")]))
       ELSE return(Cur, 400, Obj([error |-> Msg("Missing 'prompt' in JSON body")]))} : Becomes(h)
  /\ UNCHANGED script

\* the same, for a POST with a prompt: the first upstream call goes out; the
\* upstream has its reply to it lined up
Post ==
  /\ pc = "idle"
  /\ request.key /\ request.method = "POST"
  /\ Truthy(request.prompt) /\ request.prompt.t = "string"
  /\ \E h \in {[Cur EXCEPT !.pc = "first", !.promptLog = <<request.prompt.s>>]} : Becomes(h)
  /\ \E r \in UpstreamReplies : script' = <<r>>

\* the first upstream call settles: the handler runs to its next await or to
\* its answer; the upstream lines up its reply to the call after this one,
\* should there be one
FirstReply ==
  /\ pc = "first"
  /\ \E h \in {CASE rev = "while" -> firstWhile(Cur, script[1])
               [] rev = "for" -> firstFor(Cur, script[1])
               [] OTHER -> firstSingle(Cur, script[1])} : Becomes(h)
  /\ \E r \in UpstreamReplies : script' = Append(script, r)

\* a continuation call settles
MoreReply ==
  /\ pc = "more"
  /\ \E h \in {CASE rev = "while" -> moreWhile(Cur, script[Len(promptLog)])
               [] rev = "for" -> moreFor(Cur, script[Len(promptLog)])
               [] OTHER -> moreSingle(Cur, script[Len(promptLog)])} : Becomes(h)
  /\ \E r \in UpstreamReplies : script' = Append(script, r)

NextCont ==
  \/ Reject
  \/ Post
  \/ FirstReply
  \/ MoreReply

SpecCont == InitCont /\ [][NextCont]_vars

\* what the claims say about the replies of the script
ReplyOk(r) == ~IsThrow(r) /\ Is2xx(r.status)
ReplyText(r) == IF IsThrow(r) THEN <<>> ELSE extractText(r.data).s
Truncated(r) == ~IsThrow(r) /\ getFinishReason(r.data) = MaxTokens

\* N: how many replies at the head of the script are truncated
LeadingTruncated ==
  Cardinality({n \in 1..Len(script) : \A k \in 1..n : Truncated(script[k])})

\* s without its whitespace
Squeeze(s) == CharsAt(s, SelectSeq(Indexes(s), LAMBDA i : s[i] \notin WS))

\* the whitespace an append put between the text before and the chunk's
\* first visible character
JoinWhitespace(seam) ==
  LET added == SubSeq(seam.after, Len(seam.before) + 1, Len(seam.after))
  IN Len(added) - Len(TrimStart(added))

\* the text of a 200 answer
AnswerText == Get(response.body, "text").s

\* C4: when the replies of the upstream all have a 2xx status and a text that
\* is not empty (blank counts as empty), the first N are truncated
\* (MAX_TOKENS) and reply N+1 is not, the handler has issued exactly N
\* continuation calls when it answers, its answer holds the N+1 texts in
\* order, and no join carries more whitespace than one separator character
\* (no duplicated leading whitespace).
C4_ExactlyNContinuations ==
  LET N == LeadingTruncated
  IN (/\ pc = "done" /\ request = PostRequest
      /\ N < Len(script)
      /\ \A k \in 1..(N + 1) :
           ReplyOk(script[k]) /\ Trim(ReplyText(script[k])) # <<>>)
     => /\ response.status = 200
        /\ Len(promptLog) = N + 1
        /\ Squeeze(AnswerText)
             = Squeeze(Join([k \in 1..(N + 1) |-> ReplyText(script[k])], <<>>))
        /\ \A i \in 1..Len(seams) : JoinWhitespace(seams[i]) <= 1

\* the events (a)-(d) at reply k: (a) not truncated, (b) a continuation with a
\* status that is not 2xx, (c) a continuation with a blank text, (d) the second
\* continuation
StopEvent(k) ==
  \/ ~Truncated(script[k])
  \/ k >= 2 /\ ~ReplyOk(script[k])
  \/ k >= 2 /\ Trim(ReplyText(script[k])) = <<>>
  \/ k >= 3

C5_Bounded ==
  /\ Len(promptLog) <= 3
  /\ \A j \in 2..Len(promptLog) : \A k \in 1..(j - 1) : ~StopEvent(k)

\* C5: the loop always terminates: every step of the handler either gives
\* its answer or issues one more upstream call, and a POST never issues more
\* than 3 of them; no continuation call is issued after one of the events
\* (a)-(d) has occurred.
C5_TerminatesWithinBound ==
  /\ []C5_Bounded
  /\ [][pc' = "done" \/ Len(promptLog') > Len(promptLog)]_vars

\* C5 witness: the retry bound ends the loop: three truncated replies, three
\* calls, and the answer is given.
C5_Witness ==
  /\ rev \in {"while", "for"} /\ pc = "done" /\ response.status = 200
  /\ Len(promptLog) = 3 /\ Len(seams) = 2
  /\ \A k \in 1..3 : Truncated(script[k])

\* an append that trims the chunk's leading whitespace and inserts at most
\* one newline
SeamTrimmed(seam) ==
  \E sep \in {<<>>, <<"\n">>} :
    \E chunk \in {TrimStart(seam.chunk), Trim(seam.chunk)} :
      seam.after = seam.before \o sep \o chunk

\* C6: every append of a continuation chunk, in every revision, has trimmed
\* the chunk's leading whitespace and inserted at most one newline between the
\* accumulated text and the chunk.
C6_SeamsTrimmed == \A i \in 1..Len(seams) : SeamTrimmed(seams[i])

\* C7: the prompt of every continuation call j holds the text of each reply
\* 1..j-1 and the whole text accumulated from them, the latest chunk
\* included; call j is issued only when replies 1..j-1 have been handled.
C7_PromptsCarryAccumulatedText ==
  \A j \in 2..Len(promptLog) :
    /\ \A k \in 1..(j - 1) :
         /\ ReplyOk(script[k])
         /\ Includes(promptLog[j], Trim(ReplyText(script[k])))
    /\ Len(seams) >= j - 2
    /\ Includes(promptLog[j], IF j = 2 THEN ReplyText(script[1])
                              ELSE seams[j - 2].after)

\* C7 witness: the second continuation call is out, after one append.
C7_Witness ==
  /\ pc = "more" /\ Len(promptLog) = 3 /\ Len(seams) = 1
  /\ seams[1].chunk = <<" ", "i", "s", "\n">>

----------------------------------------------------------------------------
(* The caches.  Server: the /api/gemini handler of unnamed/part_000, which  *)
(* keeps answers in globalThis.__geminiCache.  Client: explainConcept of    *)
(* services/gemini.ts, which keeps results in memCache, and the tutor pane  *)
(* of App.tsx that calls it.                                                *)

\* part_000 line 15: 24 h
SERVER_CACHE_TTL_MS == 1000 * 60 * 60 * 24

\* services/gemini.ts line 18: 30 min
CACHE_TTL_MS == 1000 * 60 * 30

\* Map.prototype.delete
Without(cache, key) ==
  IF DOMAIN cache \subseteq {key} THEN <<>>
  ELSE [k \in DOMAIN cache \ {key} |-> cache[k]]

\* hashKey: the SHA-256 digest of the input, which tells any two inputs of the
\* model apart
hashKey(input) == [sha256 |-> input]

\* cacheGet that hands back an entry however old it is
cacheGetStale(cache, key, t) ==
  IF key \notin DOMAIN cache THEN Null ELSE cache[key].value

\* cacheGet at time t: the value it returns
cacheGet(cache, key, t) ==
  IF key \notin DOMAIN cache THEN Null
  ELSE IF t > cache[key].expiresAt THEN Null
  ELSE cache[key].value

\* cacheGet at time t: the cache it leaves, an entry past expiresAt deleted
cacheGetDeletes(cache, key, t) ==
  IF key \in DOMAIN cache /\ t > cache[key].expiresAt
  THEN Without(cache, key) ELSE cache

\* cacheSet at time t
cacheSet(cache, key, value, t) ==
  (key :> [value |-> value, expiresAt |-> t + SERVER_CACHE_TTL_MS]) @@ cache

\* extractTextFromCandidate: parts ?? [], then map; a value that is not a list
\* has no map method
extractTextFromCandidate(data) ==
  IF Nullish(PartsOf(data), Arr(<<>>)).t # "array"
  THEN Throw("TypeError: parts.map is not a function")
  ELSE JoinParts(Nullish(PartsOf(data), Arr(<<>>)).a)

\* one server-sent event
Event(name, data) == Obj([event |-> Msg(name), data |-> data])

\* the response of the handler: status, X-Cache header ("" when none is set)
\* and body; the body of an event stream is the list of its events
Answer(status, xcache, body) ==
  [t |-> "response", status |-> status, xcache |-> xcache, body |-> body]

\* ck = hashKey(`${chosenModel}||${prompt}`)
ck(model, prompt) == hashKey(model \o <<"|", "|">> \o prompt)

\* handler, from its entry to its first await: the response it sends, or
\* Undefined when it goes on to call the generator; t is Date.now()
handler(req, cache, t) ==
  IF ~req.key
  THEN Answer(500, "", Obj([error |-> Msg("Missing GEMINI_API_KEY environment variable")]))
  ELSE IF req.method = "GET"
  THEN Answer(200, "", Obj([ok |-> Bool(TRUE),
                            hint |-> Msg("POST { prompt } or POST { prompt, stream: true }")]))
  ELSE IF req.method # "POST"
  THEN Answer(405, "", Obj([error |-> Msg("Method not allowed")]))
  ELSE IF ~Truthy(req.prompt) \/ req.prompt.t # "string"
  THEN Answer(400, "", Obj([error |-> Msg("Missing 'prompt' in JSON body")]))
  ELSE
    LET respond(model, cached) ==
          IF ~Truthy(req.stream)
          THEN IF Truthy(cached) THEN Answer(200, "HIT", cached) ELSE Undefined
          ELSE IF Truthy(Get(cached, "text"))
          THEN Answer(200, "",
                 Arr(<<Event("meta", Obj([model |-> model, cached |-> Bool(TRUE)])),
                       Event("chunk", Obj([delta |-> Get(cached, "text")])),
                       Event("done", Obj([finishReason |-> Msg("CACHED")]))>>))
          ELSE Undefined
        lookup(model) ==
          respond(model, cacheGet(cache, ck(model.s, req.prompt.s), t))
    IN lookup(chosenModel(req.model))

\* whether handler gets as far as its cacheGet
LooksUp(req) ==
  /\ req.key /\ req.method = "POST"
  /\ Truthy(req.prompt) /\ req.prompt.t = "string"

\* handler after generateContentJSON of the non-stream path: the payload it
\* stores (Undefined when it stores none) and its response
afterGenerate(model, reply) ==
  LET stored(text) ==
        IF IsThrow(text)
        THEN [payload |-> Undefined,
              response |-> Answer(500, "", Obj([error |-> Msg(text.e)]))]
        ELSE [payload |-> Obj([text |-> text, model |-> model]),
              response |-> Answer(200, "MISS", Obj([text |-> text, model |-> model]))]
  IN IF IsThrow(reply)
     THEN [payload |-> Undefined,
           response |-> Answer(500, "", Obj([error |-> Msg(reply.e)]))]
     ELSE IF ~Is2xx(reply.status)
     THEN [payload |-> Undefined,
           response |-> Answer(500, "",
                          Obj([error |-> Msg("Gemini request failed"),
                               status |-> Num(reply.status),
                               details |-> reply.data, model |-> model]))]
     ELSE stored(extractTextFromCandidate(reply.data))

\* the data line of one upstream message: msg.split("\n"), every line
\* trimmed, the first line that starts with "data:", Undefined when none does
dataLine(msg) ==
  LET lines == SplitStr(msg, <<"\n">>)
      found == SelectSeq([i \in 1..Len(lines) |-> Trim(lines[i])],
                         LAMBDA l : StartsWith(l, <<"d", "a", "t", "a", ":">>))
  IN IF found = <<>> THEN Undefined ELSE S(found[1])

\* dataLine.replace(/^data:\s*/, "")
jsonStr(line) == TrimStart(SubSeq(line.s, 6, Len(line.s)))

\* the body of the for loop over the messages of one read: acc holds the
\* deltas written as chunk events and finishReason; a message without a data
\* line, the [DONE] message, and a message whose JSON.parse or
\* extractTextFromCandidate throws leave acc as it is
readMessage(acc, msg) ==
  LET line == dataLine(msg)
      payload == tryParseJson(jsonStr(line))
      delta == extractTextFromCandidate(payload)
      fr == getFinishReason(payload)
  IN IF line.t = "undefined" THEN acc
     ELSE IF jsonStr(line) = <<"[", "D", "O", "N", "E", "]">> THEN acc
     ELSE IF payload = Null \/ IsThrow(delta) THEN acc
     ELSE [deltas |-> IF Truthy(delta) THEN Append(acc.deltas, delta)
                      ELSE acc.deltas,
           fr |-> IF Truthy(fr) THEN fr ELSE acc.fr]

RECURSIVE readMessages(_, _)
readMessages(acc, messages) ==
  IF messages = <<>> THEN acc
  ELSE readMessages(readMessage(acc, Head(messages)), Tail(messages))

\* the while loop over reader.read(): buffer += the read, buffer.split("\n\n"),
\* the last piece stays in buffer, the others are the messages of this read;
\* what buffer holds when the upstream is done is never looked at
RECURSIVE readLoop(_, _, _)
readLoop(reads, buffer, acc) ==
  IF reads = <<>> THEN acc
  ELSE LET messages == SplitStr(buffer \o Head(reads), <<"\n", "\n">>)
       IN readLoop(Tail(reads), messages[Len(messages)],
                   readMessages(acc, SubSeq(messages, 1, Len(messages) - 1)))

\* handler after streamGenerateContent: the meta event, the read loop over
\* the reads of the upstream body, then cacheSet and the done event
afterStream(model, reply) ==
  LET events(deltas, fr) ==
        <<Event("meta", Obj([model |-> model, cached |-> Bool(FALSE)]))>>
        \o [i \in 1..Len(deltas) |-> Event("chunk", Obj([delta |-> deltas[i]]))]
        \o <<Event("done", Obj([finishReason |-> OrElse(fr, Msg("DONE"))]))>>
      finish(acc) ==
        [payload |-> Obj([text |-> S(Join([i \in 1..Len(acc.deltas) |->
                                             acc.deltas[i].s], <<>>)),
                          model |-> model]),
         response |-> Answer(200, "", Arr(events(acc.deltas, acc.fr)))]
  IN IF IsThrow(reply)
     THEN [payload |-> Undefined,
           response |-> Answer(500, "", Obj([error |-> Msg(reply.e)]))]
     ELSE IF ~reply.ok
     THEN [payload |-> Undefined,
           response |-> Answer(500, "",
                          Obj([error |-> Msg("Gemini stream request failed"),
                               status |-> Num(reply.status),
                               details |-> S(<<>>), model |-> model]))]
     ELSE finish(readLoop(reply.reads, <<>>, [deltas |-> <<>>, fr |-> Undefined]))

\* --- the client ---

\* cacheKey: `${concept}__${answerContext ?? ""}`.trim()
cacheKey(concept, answerContext) ==
  Trim(concept.s \o <<"_", "_">> \o Nullish(answerContext, S(<<>>)).s)

\* getCached at time t: the value it returns
getCached(mem, concept, answerContext, t) ==
  IF cacheKey(concept, answerContext) \notin DOMAIN mem THEN Null
  ELSE IF t - mem[cacheKey(concept, answerContext)].at > CACHE_TTL_MS THEN Null
  ELSE mem[cacheKey(concept, answerContext)].value

\* getCached at time t: the cache it leaves, an entry past the TTL deleted
getCachedDeletes(mem, concept, answerContext, t) ==
  IF /\ cacheKey(concept, answerContext) \in DOMAIN mem
     /\ t - mem[cacheKey(concept, answerContext)].at > CACHE_TTL_MS
  THEN Without(mem, cacheKey(concept, answerContext)) ELSE mem

\* setCached at time t
setCached(mem, concept, answerContext, value, t) ==
  (cacheKey(concept, answerContext) :> [at |-> t, value |-> value]) @@ mem

\* the em dash that fills a blank section; "~" stands for it
Dash == S(<<"~">>)

\* explainConcept after its fetch: what it returns, or throws, for the reply
\* (a rejected fetch or a body that is no JSON arrives as the Throw itself)
explained(reply, concept) ==
  LET finalOut(normalized) ==
        Obj([title |-> OrElse(Get(normalized, "title"), OrElse(concept, AiTutor)),
             simpleExplanation |-> OrElse(Get(normalized, "simpleExplanation"), Dash),
             realWorldExample |-> OrElse(Get(normalized, "realWorldExample"), Dash),
             keyCommands |-> OrElse(Get(normalized, "keyCommands"), Arr(<<>>)),
             commonMistakes |-> OrElse(Get(normalized, "commonMistakes"), Arr(<<>>)),
             quickCheck |-> OrElse(Get(normalized, "quickCheck"), Arr(<<>>))])
      candidate(json) ==
        IF json.t = "object" /\ "data" \in DOMAIN json.o /\ Truthy(Get(json, "data"))
        THEN Get(json, "data")
        ELSE IF json.t = "object" /\ Get(json, "text").t = "string"
        THEN Get(json, "text")
        ELSE json
  IN IF IsThrow(reply) THEN reply
     ELSE IF ~reply.ok
     THEN Throw(OrElse(Get(reply.json, "error"), Msg("Gemini API failed")))
     ELSE finalOut(normalizeFromAny(candidate(reply.json), concept))

\* the result handleExplain shows when explainConcept throws
ErrorResult ==
  Obj([title |-> AiTutor,
       simpleExplanation |->
         S(<<"E", "r", "r", "o", "r", " ", "c", "o", "n", "n", "e", "c", "t",
             "i", "n", "g", " ", "t", "o", " ", "A", "I", " ", "t", "u", "t",
             "o", "r", ".">>),
       realWorldExample |-> S(<<>>), keyCommands |-> Arr(<<>>),
       commonMistakes |-> Arr(<<>>), quickCheck |-> Arr(<<>>)])

\* --- the requests, the cards and the replies of the model ---

CachePost(model, prompt, stream) ==
  [method |-> "POST", prompt |-> S(prompt), model |-> model,
   stream |-> stream, key |-> TRUE]

\* two (model, prompt) pairs that ck writes alike, one with the default model
\* and one with a model to trim, each with and without stream, and the
\* requests the handler turns away
ServerRequests ==
  UNION {{CachePost(Undefined, <<"p", "|", "|", "q">>, stream),
          CachePost(S(<<" ">> \o DefaultModel.s \o <<"|", "|", "p">>), <<"q">>, stream)} :
           stream \in {Undefined, Bool(TRUE)}}
  \cup {[CachePost(Undefined, <<"q">>, Undefined) EXCEPT !.method = "GET"],
        [CachePost(Undefined, <<"q">>, Undefined) EXCEPT !.method = "PUT"],
        [CachePost(Undefined, <<"q">>, Undefined) EXCEPT !.prompt = Undefined],
        [CachePost(Undefined, <<"q">>, Undefined) EXCEPT !.key = FALSE]}

\* what generateContentJSON hands back: text, no candidate, parts that is not
\* a list, a refusal, a rejected fetch
GenerateReplies ==
  {Reply(200, Generated(Arr(<<Part(<<"O", "S", "P", "F">>)>>), Stop)),
   Reply(200, Obj([promptFeedback |-> Obj(<<>>)])),
   Reply(200, Generated(S(<<"x">>), Undefined)),
   Reply(500, Obj([error |-> Obj(<<>>)])),
   Throw("fetch failed")}

\* one message of the upstream event stream on the wire: a data line and
\* the blank line that ends it, with the line ending eol; the [DONE] message
\* is written as it is, a payload as its JSON
frame(m, eol, closed) ==
  <<"d", "a", "t", "a", ":", " ">>
  \o (IF m.t = "string" THEN m.s ELSE Stringify(m))
  \o (IF closed THEN eol \o eol ELSE <<>>)

\* the body of the upstream: its frames in a row, the last one without its
\* blank line when the body is not closed
wire(messages, eol, closed) ==
  Join([i \in 1..Len(messages) |->
          frame(messages[i], eol, closed \/ i < Len(messages))], <<>>)

\* the pieces reader.read() hands over when the body s arrives cut after the
\* indexes of cuts, a rising sequence of indexes
readsOf(s, cuts) ==
  [k \in 1..(Len(cuts) + 1) |->
     SubSeq(s, IF k = 1 THEN 1 ELSE cuts[k - 1] + 1,
               IF k = Len(cuts) + 1 THEN Len(s) ELSE cuts[k])]

\* what the fetch of streamGenerateContent hands back: upstream.ok, the
\* status and the reads of the body; messages is what the upstream sent
StreamReply(ok, status, messages, reads) ==
  [t |-> "stream", ok |-> ok, status |-> status, messages |-> messages,
   reads |-> reads]

Lf == <<"\n">>
CrLf == <<"\r", "\n">>

LinkState ==
  <<Generated(Arr(<<Part(<<"l", "i", "n", "k">>)>>), Undefined),
    Generated(Arr(<<Part(<<"-", "s", "t", "a", "t", "e">>)>>), Stop)>>

WithOddParts ==
  <<LinkState[1], Generated(S(<<"x">>), Undefined), LinkState[2]>>

WithDone == LinkState \o <<S(<<"[", "D", "O", "N", "E", "]">>)>>

\* what streamGenerateContent hands back: a message per read, one of them
\* with parts that is not a list; reads that cut a separator and a payload in
\* two, with the [DONE] message last; a stream without text; a body whose
\* lines end in "\r\n"; a body whose last message has no blank line after it;
\* a refusal; a rejected fetch
StreamReplies ==
  {StreamReply(TRUE, 200, WithOddParts,
     [i \in 1..3 |-> frame(WithOddParts[i], Lf, TRUE)]),
   StreamReply(TRUE, 200, WithDone,
     readsOf(wire(WithDone, Lf, TRUE),
             <<Len(frame(WithDone[1], Lf, TRUE)) - 1,
               Len(frame(WithDone[1], Lf, TRUE)) + 9>>)),
   StreamReply(TRUE, 200, <<Obj([promptFeedback |-> Obj(<<>>)])>>,
     <<frame(Obj([promptFeedback |-> Obj(<<>>)]), Lf, TRUE)>>),
   StreamReply(TRUE, 200, LinkState, <<wire(LinkState, CrLf, TRUE)>>),
   StreamReply(TRUE, 200, LinkState, <<wire(LinkState, Lf, FALSE)>>),
   StreamReply(FALSE, 500, <<>>, <<>>),
   Throw("fetch failed")}

\* the cards the learner asks about: concept and answer; cacheKey writes the
\* two alike
Cards ==
  {[concept |-> S(<<"a", "_", "_", "b">>), answer |-> Undefined],
   [concept |-> S(<<"a">>), answer |-> S(<<"b", "_", "_">>)]}

FetchReply(ok, json) == [t |-> "fetched", ok |-> ok, json |-> json]

\* what fetch("/api/gemini") and res.json() hand back
FetchReplies ==
  {FetchReply(TRUE, Obj([text |-> S(Stringify(TargetShape(LongText))),
                         model |-> DefaultModel])),
   FetchReply(TRUE, Obj([text |-> S(ShortText), model |-> DefaultModel])),
   FetchReply(TRUE, Obj([data |-> Obj([simpleExplanation |-> S(MidText)])])),
   FetchReply(FALSE, Obj([error |-> S(<<"f", "a", "i", "l", "e", "d">>)])),
   Throw("TypeError: Failed to fetch")}

\* explained, computed once for every reply and concept of the model
Explained ==
  [reply \in FetchReplies, concept \in {card.concept : card \in Cards} |->
     explained(reply, concept)]

\* how many requests (explainConcept calls) await their upstream at a time
MaxInFlight == 1

\* how often the clock advances
MaxTicks == 2

----------------------------------------------------------------------------
(* The cache specification: one process, the server or the client, with its *)
(* clock; requests and calls overlap up to MaxInFlight                      *)

InitCache ==
  /\ side \in {"server", "client"}
  /\ appRev \in (IF side = "client" THEN {"catch", "finally"} ELSE {"none"})
  /\ currentConcept = <<>> /\ aiLoading = FALSE /\ aiExplanation = Null
  /\ calls = <<>>
  /\ now = 0 /\ ticks = 0 /\ serverCache = <<>> /\ memCache = <<>>
  /\ reqs = <<>> /\ lastSet = <<>> /\ answered = <<>> /\ lastStep = NoStep
  /\ IdleNorm /\ IdleCont /\ IdleNav

\* s without its i-th element
Drop(s, i) == SubSeq(s, 1, i - 1) \o SubSeq(s, i + 1, Len(s))

\* the pair whose entry under key is in the cache at time t, <<>> if none is
Holder(cache, key, live) ==
  IF key \in DOMAIN cache /\ live THEN lastSet[key].by ELSE <<>>

\* a request arrives: the handler runs to its response or to its upstream
\* call, which it may await with fewer than limit others
Arrives(limit) ==
  /\ side = "server"
  /\ \E req \in ServerRequests : \E h \in {handler(req, serverCache, now)} :
       /\ h.t = "undefined" => Len(reqs) < limit
       /\ IF LooksUp(req)
          THEN \E model \in {chosenModel(req.model)} :
                 /\ serverCache' =
                      cacheGetDeletes(serverCache, ck(model.s, req.prompt.s), now)
                 /\ reqs' = IF h.t # "undefined" THEN reqs
                            ELSE Append(reqs, [model |-> model,
                                               prompt |-> req.prompt.s,
                                               stream |-> Truthy(req.stream)])
                 /\ lastStep' =
                      [op |-> "post", at |-> now,
                       pair |-> <<model.s, req.prompt.s>>,
                       stream |-> Truthy(req.stream),
                       key |-> ck(model.s, req.prompt.s),
                       ret |-> cacheGet(serverCache, ck(model.s, req.prompt.s), now),
                       response |-> h]
          ELSE /\ UNCHANGED <<serverCache, reqs>>
               /\ lastStep' = [op |-> "post", at |-> now, pair |-> <<>>,
                               stream |-> FALSE, key |-> Null, ret |-> Null,
                               response |-> h]
  /\ UNCHANGED <<side, now, ticks, memCache, lastSet, answered, normVars, navVars,
                 appVars, contVars>>

ServerPost == Arrives(MaxInFlight)

\* the handler of request i goes on from its upstream call, which handed
\* back reply, with outcome h: cacheSet when there is a payload, then the
\* response
Resume(i, h, reply) ==
  \E key \in {ck(reqs[i].model.s, reqs[i].prompt)} :
  \E pair \in {<<reqs[i].model.s, reqs[i].prompt>>} :
    /\ reqs' = Drop(reqs, i)
    /\ IF h.payload.t = "undefined"
       THEN /\ UNCHANGED <<serverCache, lastSet, answered>>
            /\ lastStep' = [op |-> "answer", at |-> now, pair |-> pair,
                            key |-> Null, over |-> <<>>, response |-> h.response,
                            stream |-> reqs[i].stream, upstream |-> reply,
                            set |-> FALSE]
       ELSE /\ serverCache' = cacheSet(serverCache, key, h.payload, now)
            /\ lastSet' = (key :> [value |-> h.payload, at |-> now, by |-> pair])
                          @@ lastSet
            /\ answered' =
                 IF reqs[i].stream THEN answered
                 ELSE (pair :> [value |-> h.payload,
                                until |-> now + SERVER_CACHE_TTL_MS]) @@ answered
            /\ lastStep' =
                 [op |-> "answer", at |-> now, pair |-> pair, key |-> Null,
                  over |-> Holder(serverCache, key,
                                  key \in DOMAIN serverCache
                                    /\ now <= serverCache[key].expiresAt),
                  response |-> h.response, stream |-> reqs[i].stream,
                  upstream |-> reply, set |-> TRUE]
    /\ UNCHANGED <<side, now, ticks, memCache, normVars, navVars, appVars, contVars>>

\* generateContentJSON of a non-stream request settles
GenerateSettles ==
  /\ side = "server"
  /\ \E i \in DOMAIN reqs :
       /\ ~reqs[i].stream
       /\ \E reply \in GenerateReplies :
            \E h \in {afterGenerate(reqs[i].model, reply)} : Resume(i, h, reply)

\* streamGenerateContent of a stream request settles and its stream is read
StreamSettles ==
  /\ side = "server"
  /\ \E i \in DOMAIN reqs :
       /\ reqs[i].stream
       /\ \E reply \in StreamReplies :
            \E h \in {afterStream(reqs[i].model, reply)} : Resume(i, h, reply)

\* currentCard?.answer || ""
answerContext(card) == OrElse(card.answer, S(<<>>))

\* handleExplain up to the await of explainConcept, and through it when
\* explainConcept returns from the cache
Explains(limit) ==
  /\ side = "client"
  /\ \E card \in Cards :
     \E cached \in {getCached(memCache, card.concept, answerContext(card), now)} :
       /\ ~Truthy(cached) => Len(calls) < limit
       /\ currentConcept' = card.concept.s
       /\ memCache' =
            getCachedDeletes(memCache, card.concept, answerContext(card), now)
       /\ IF Truthy(cached)
          THEN aiLoading' = FALSE /\ aiExplanation' = cached /\ calls' = calls
          ELSE /\ aiLoading' = TRUE
               /\ aiExplanation' = (IF appRev = "catch" THEN Null ELSE aiExplanation)
               /\ calls' = Append(calls, card)
       /\ lastStep' =
            [op |-> "explain", at |-> now,
             pair |-> <<card.concept.s, answerContext(card).s>>,
             key |-> cacheKey(card.concept, answerContext(card)),
             ret |-> cached, settled |-> Truthy(cached), threw |-> FALSE,
             result |-> cached]
  /\ UNCHANGED <<appRev, side, now, ticks, serverCache, reqs, lastSet,
                 answered, normVars, navVars, contVars>>

HandleExplain == Explains(MaxInFlight)

\* the fetch of call i settles: explainConcept returns or throws, and
\* handleExplain runs to its end
FetchSettles ==
  /\ side = "client"
  /\ \E i \in DOMAIN calls : \E reply \in FetchReplies :
     \E r \in {Explained[reply, calls[i].concept]} :
     \E key \in {cacheKey(calls[i].concept, answerContext(calls[i]))} :
     \E pair \in {<<calls[i].concept.s, answerContext(calls[i]).s>>} :
       /\ calls' = Drop(calls, i)
       /\ aiLoading' = FALSE
       /\ IF IsThrow(r)
          THEN /\ aiExplanation' =
                    (IF appRev = "catch" THEN ErrorResult ELSE aiExplanation)
               /\ UNCHANGED <<memCache, lastSet, answered>>
          ELSE /\ aiExplanation' = r
               /\ memCache' = setCached(memCache, calls[i].concept,
                                        answerContext(calls[i]), r, now)
               /\ lastSet' = (key :> [value |-> r, at |-> now, by |-> pair])
                             @@ lastSet
               /\ answered' = (pair :> [value |-> r, until |-> now + CACHE_TTL_MS])
                              @@ answered
       /\ lastStep' =
            [op |-> "settle", at |-> now, pair |-> pair, key |-> Null,
             settled |-> TRUE, threw |-> IsThrow(r),
             result |-> IF IsThrow(r) THEN Null ELSE r,
             over |-> IF IsThrow(r) THEN <<>>
                      ELSE Holder(memCache, key,
                                  key \in DOMAIN memCache
                                    /\ now - memCache[key].at <= CACHE_TTL_MS)]
  /\ UNCHANGED <<appRev, currentConcept, side, now, ticks, serverCache, reqs,
                 normVars, navVars, contVars>>

\* onClose of the tutor pane
OnClose ==
  /\ side = "client"
  /\ aiExplanation' = Null /\ aiLoading' = FALSE
  /\ lastStep' = [op |-> "close"]
  /\ UNCHANGED <<appRev, currentConcept, calls, side, now, ticks, serverCache,
                 memCache, reqs, lastSet, answered, normVars, navVars, contVars>>

\* time passes: a little over half the time-to-live of the cache, so that an
\* entry is within its time after one advance and past it after two
Tick ==
  /\ ticks < MaxTicks
  /\ now' = now + 1 + (IF side = "server" THEN SERVER_CACHE_TTL_MS
                       ELSE CACHE_TTL_MS) \div 2
  /\ ticks' = ticks + 1
  /\ lastStep' = [op |-> "tick"]
  /\ UNCHANGED <<side, serverCache, memCache, reqs, lastSet, answered,
                 normVars, navVars, appVars, contVars>>

NextCache ==
  \/ ServerPost
  \/ GenerateSettles
  \/ StreamSettles
  \/ HandleExplain
  \/ FetchSettles
  \/ OnClose
  \/ Tick

SpecCache == InitCache /\ [][NextCache]_vars

\* Two requests of one serving process, interleaved at their upstream awaits:
\* the clock stands still and a second request may arrive, and run to its own
\* await, while the first awaits its upstream.
InitRace == InitCache /\ side = "server"

RacePost == Arrives(2)

NextRace ==
  \/ RacePost
  \/ GenerateSettles
  \/ StreamSettles

SpecRace == InitRace /\ [][NextRace]_vars

\* Two explain requests of one page, overlapping: the learner asks again
\* while the first call awaits its fetch (the pane closed in between or
\* not), and the two settle in either order.
InitOverlap == InitCache /\ side = "client"

OverlapExplain == Explains(2)

NextOverlap ==
  \/ OverlapExplain
  \/ FetchSettles
  \/ OnClose

SpecOverlap == InitOverlap /\ [][NextOverlap]_vars

\* the step before was a lookup in the cache of the side: a request that came
\* as far as cacheGet, or a handleExplain call (getCached in explainConcept)
IsLookup == lastStep.op \in {"post", "explain"} /\ lastStep.key # Null

\* the time-to-live of the cache of the side
Ttl == IF side = "server" THEN SERVER_CACHE_TTL_MS ELSE CACHE_TTL_MS

\* C3: when a handleExplain invocation has run to its end, aiLoading is false
\* and aiExplanation is a complete six-field result of that request: what
\* explainConcept returned, or the fixed error result when it threw.
C3_PaneShowsResult ==
  (side = "client" /\ lastStep.op \in {"explain", "settle"} /\ lastStep.settled)
    => /\ aiLoading = FALSE
       /\ IsAiTutorResult(aiExplanation)
       /\ aiExplanation = (IF lastStep.threw THEN ErrorResult
                           ELSE lastStep.result)

\* C8: a lookup before the expiry of the entry last set for its key returns
\* the value of that set, and a lookup after the expiry returns null, on the
\* server (cacheGet/cacheSet) and on the client (getCached/setCached).
C8_LookupReturnsLastSet ==
  (IsLookup /\ lastStep.key \in DOMAIN lastSet)
    => /\ lastStep.at < lastSet[lastStep.key].at + Ttl
            => lastStep.ret = lastSet[lastStep.key].value
       /\ lastStep.at > lastSet[lastStep.key].at + Ttl
            => lastStep.ret = Null

\* C8 witness: a key was set, its time-to-live went by, and the lookup that
\* followed reported a miss.
C8_Witness ==
  /\ IsLookup /\ lastStep.key \in DOMAIN lastSet
  /\ lastStep.at > lastSet[lastStep.key].at + Ttl
  /\ lastStep.ret = Null

\* C9: once a non-streaming POST for a pair has been answered (an
\* explainConcept call for a pair has returned), a later non-streaming POST
\* (explainConcept call) for that pair before the expiry is answered from the
\* cache with the same payload, and makes no upstream call.
C9_RepeatServedFromCache ==
  (/\ IsLookup
   /\ lastStep.pair \in DOMAIN answered
   /\ lastStep.at < answered[lastStep.pair].until
   /\ side = "server" => ~lastStep.stream)
    => IF side = "server"
       THEN /\ lastStep.response.t = "response"
            /\ lastStep.response.xcache = "HIT"
            /\ lastStep.response.body = answered[lastStep.pair].value
       ELSE /\ lastStep.settled
            /\ lastStep.result = answered[lastStep.pair].value

\* C10: a lookup never returns an entry that a different pair stored, and a
\* set never replaces the live entry of a different pair.
C10_KeyedByPair ==
  /\ (IsLookup /\ lastStep.ret # Null)
       => lastSet[lastStep.key].by = lastStep.pair
  /\ lastStep.op \in {"answer", "settle"}
       => lastStep.over \in {<<>>, lastStep.pair}

\* C11: with two requests interleaved at their upstream awaits, every cache
\* entry holds the payload that an upstream call for the entry's own
\* (model, prompt) produced, and every JSON answer carries a payload for the
\* (model, prompt) of its own request.
C11_InterleavedRequestsServed ==
  /\ \A key \in DOMAIN serverCache :
       /\ serverCache[key].value = lastSet[key].value
       /\ serverCache[key].value.o.model.s = lastSet[key].by[1]
       /\ key = ck(lastSet[key].by[1], lastSet[key].by[2])
  /\ (/\ lastStep.op \in {"post", "answer"}
      /\ lastStep.pair # <<>>
      /\ lastStep.response.t = "response"
      /\ lastStep.response.status = 200
      /\ lastStep.response.body.t = "object")
       => /\ lastStep.response.body.o.model.s = lastStep.pair[1]
          /\ lastStep.op = "post" => lastSet[lastStep.key].by = lastStep.pair

----------------------------------------------------------------------------
(* The JSON-forcing handler of api/gemini.ts: a primary call with a prompt  *)
(* that asks for JSON, one repair call when the answer does not parse or    *)
(* lacks sections, and an answer that is always the six-field object.  It   *)
(* runs as the revision "json" of the handler, in the variables of the      *)
(* auto-continue handlers: out holds normalized, fullText holds raw1.       *)

\* String.prototype.trimEnd
TrimEnd(s) ==
  LET keep == {i \in 1..Len(s) : s[i] \notin WS}
  IN IF keep = {} THEN <<>> ELSE SubSeq(s, 1, SetMax(keep))

\* safeJsonExtract: from the first "{" to the last "}", null when there is none
safeJsonExtract(s) ==
  LET cut(first, last) ==
        IF first = 0 \/ last = 0 \/ last <= first THEN Null
        ELSE S(SubSeq(s, first, last))
  IN IF s = <<>> THEN Null ELSE cut(IndexOf(s, "{"), LastIndexOf(s, "}"))

\* tryParseTutorJSON: JSON.parse of the text, else of its {...} region, else
\* null (a text that parses to null has no region to extract)
tryParseTutorJSON(raw) ==
  LET region(extracted) ==
        IF ~Truthy(extracted) THEN Null ELSE tryParseJson(extracted.s)
      direct(obj) == IF obj # Null THEN obj ELSE region(safeJsonExtract(raw))
  IN direct(tryParseJson(raw))

\* String(v ?? "").trim()
TrimmedString(v) == Trim(JsString(Nullish(v, S(<<>>))))

\* Array.isArray(v) ? v.map(String).filter(Boolean) : []
StringItems(v) ==
  IF v.t # "array" THEN Arr(<<>>)
  ELSE Arr(SelectSeq([i \in 1..Len(v.a) |-> S(JsString(v.a[i]))],
                     LAMBDA x : Truthy(x)))

normalizeTutorJSON(obj) ==
  Obj([title |-> OrElse(S(TrimmedString(Get(obj, "title"))), AiTutor),
       simpleExplanation |-> S(TrimmedString(Get(obj, "simpleExplanation"))),
       realWorldExample |-> S(TrimmedString(Get(obj, "realWorldExample"))),
       keyCommands |-> StringItems(Get(obj, "keyCommands")),
       commonMistakes |-> StringItems(Get(obj, "commonMistakes")),
       quickCheck |-> StringItems(Get(obj, "quickCheck"))])

\* needsRepair that looks at the two texts only
needsRepairTextsOnly(obj) ==
  \/ ~Truthy(obj.o.simpleExplanation)
  \/ ~Truthy(obj.o.realWorldExample)

needsRepair(obj) ==
  \/ ~Truthy(obj.o.simpleExplanation)
  \/ ~Truthy(obj.o.realWorldExample)
  \/ Len(obj.o.keyCommands.a) = 0
  \/ Len(obj.o.commonMistakes.a) = 0

\* getTextFromGeminiResponse: "" unless parts is a list
getTextFromGeminiResponse(data) ==
  LET text(parts) == IF parts.t # "array" THEN S(<<>>) ELSE JoinParts(parts.a)
  IN text(PartsOf(data))

\* the two prompts: the fixed text of the template and the texts put into
\* it, the whole trimmed (the template ends with the last of them)
buildJsonPrompt(conceptPrompt) ==
  [template |-> Msg("You are a CCNA tutor. Return ONLY valid JSON"),
   holes |-> <<TrimEnd(conceptPrompt)>>]

buildRepairPrompt(originalRequest, badOutput) ==
  [template |-> Msg("You returned output that was missing fields or not valid JSON."),
   holes |-> <<originalRequest, TrimEnd(badOutput)>>]

NoExplanation ==
  S(<<"N", "o", " ", "e", "x", "p", "l", "a", "n", "a", "t", "i", "o", "n",
      " ", "a", "v", "a", "i", "l", "a", "b", "l", "e", ".">>)

\* 3) the final response, from normalized (h.out) and raw1 (h.fullText)
jsonFinal(h) ==
  IF h.out = Null
  THEN return(h, 200,
         Obj([ok |-> Bool(TRUE), model |-> chosenModel(request.model),
              data |-> normalizeTutorJSON(
                         Obj([title |-> AiTutor,
                              simpleExplanation |->
                                OrElse(S(h.fullText), NoExplanation),
                              realWorldExample |-> S(<<>>),
                              keyCommands |-> Arr(<<>>),
                              commonMistakes |-> Arr(<<>>),
                              quickCheck |-> Arr(<<>>)])),
              raw |-> S(h.fullText)]))
  ELSE return(h, 200, Obj([ok |-> Bool(TRUE),
                           model |-> chosenModel(request.model),
                           data |-> h.out]))

\* 1) the primary call settles: an error answer, or raw1 and normalized, and
\* then the repair call or the final response
jsonFirst(h, reply) ==
  LET decide(g) ==
        IF g.out = Null \/ needsRepair(g.out)
        THEN [g EXCEPT !.pc = "repair",
                       !.promptLog =
                         Append(@, buildRepairPrompt(request.prompt.s, g.fullText))]
        ELSE jsonFinal(g)
      normalize(raw1, parsed) ==
        decide([h EXCEPT !.fullText = raw1,
                         !.out = IF Truthy(parsed) THEN normalizeTutorJSON(parsed)
                                 ELSE Null])
      parse(raw1) == normalize(raw1, tryParseTutorJSON(raw1))
  IN IF IsThrow(reply) THEN serverError(h, reply.e)
     ELSE IF ~Is2xx(reply.status)
     THEN requestFailed(h, reply.status, reply.data)
     ELSE parse(getTextFromGeminiResponse(reply.data).s)

\* 2) the repair call settles: normalized is replaced when the repair has a
\* 2xx status and a text that parses
jsonRepair(h, reply) ==
  LET replace(parsed2) ==
        jsonFinal(IF Truthy(parsed2)
                  THEN [h EXCEPT !.out = normalizeTutorJSON(parsed2)] ELSE h)
  IN IF IsThrow(reply) THEN serverError(h, reply.e)
     ELSE IF ~Is2xx(reply.status) THEN jsonFinal(h)
     ELSE replace(tryParseTutorJSON(getTextFromGeminiResponse(reply.data).s))

\* the target shape with nothing lacking
CompleteShape ==
  Obj([title |-> S(ShortText), simpleExplanation |-> S(LongText),
       realWorldExample |-> S(MidText),
       keyCommands |-> Arr(<<S(CommandText)>>),
       commonMistakes |-> Arr(<<S(MidText)>>), quickCheck |-> Arr(<<>>)])

\* fields of other types than the schema asks for
OddShape ==
  Obj([title |-> S(<<" ">>), simpleExplanation |-> Bool(TRUE),
       realWorldExample |-> Arr(<<S(ShortText)>>),
       keyCommands |-> Arr(<<Null, S(<<>>), Bool(TRUE), S(<<" ">>)>>),
       commonMistakes |-> Arr(<<Arr(<<>>), Bool(FALSE)>>)])

\* the texts the model answers with: complete JSON, JSON without common
\* mistakes, JSON within prose, JSON cut off, JSON of other types, JSON that
\* is no object, plain text, blank text
JsonTexts ==
  {Stringify(CompleteShape),
   Stringify(TargetShape(LongText)),
   Prose \o Stringify(CompleteShape) \o Suffix,
   SubSeq(Stringify(CompleteShape), 1, 40),
   Stringify(OddShape),
   <<"t", "r", "u", "e">>,
   ShortText,
   <<" ", "\n">>}

\* what generateContent hands back
JsonReplies ==
  {Reply(200, Generated(Arr(<<Part(text)>>), Stop)) : text \in JsonTexts}
  \cup {Reply(200, Obj([promptFeedback |-> Obj(<<>>)])),
        Reply(500, Obj([error |-> Obj(<<>>)])),
        Reply(404, Obj([error |-> Obj(<<>>)])),
        Throw("fetch failed")}

\* the requests, each also as it arrives when no API key is configured
JsonRequests == Requests \cup {[r EXCEPT !.key = FALSE] : r \in Requests}

InitRepair ==
  /\ rev = "json"
  /\ request \in JsonRequests
  /\ script = <<>>
  /\ pc = "idle" /\ out = Undefined /\ fullText = <<>>
  /\ finishReason = Undefined /\ safetyCounter = 0 /\ promptLog = <<>>
  /\ seams = <<>> /\ response = Undefined
  /\ IdleNorm /\ IdleApp /\ IdleCache /\ IdleNav

\* a POST with a prompt: the primary call goes out with the JSON prompt
JsonPost ==
  /\ pc = "idle"
  /\ request.key /\ request.method = "POST"
  /\ Truthy(request.prompt) /\ request.prompt.t = "string"
  /\ \E h \in {[Cur EXCEPT !.pc = "first",
                           !.promptLog = <<buildJsonPrompt(request.prompt.s)>>]} :
       Becomes(h)
  /\ \E r \in JsonReplies : script' = <<r>>

\* the primary call settles; the upstream has its reply to a repair call
\* lined up when one goes out
JsonFirstReply ==
  /\ pc = "first"
  /\ \E h \in {jsonFirst(Cur, script[1])} :
       /\ Becomes(h)
       /\ IF h.pc = "repair"
          THEN \E r \in JsonReplies : script' = Append(script, r)
          ELSE UNCHANGED script

\* the repair call settles
JsonRepairReply ==
  /\ pc = "repair"
  /\ \E h \in {jsonRepair(Cur, script[2])} : Becomes(h)
  /\ UNCHANGED script

NextRepair ==
  \/ Reject
  \/ JsonPost
  \/ JsonFirstReply
  \/ JsonRepairReply

SpecRepair == InitRepair /\ [][NextRepair]_vars

\* the first upstream call of the request was answered with a non-2xx status
\* and the handler has run to its response
PrimaryFailed ==
  pc = "done" /\ script # <<>> /\ ~IsThrow(script[1]) /\ ~Is2xx(script[1].status)

\* what the other two handlers do with a primary call that is not 2xx: the
\* cache handler of part_000 stores nothing and answers with the status and
\* the payload; the JSON-forcing handler answers so and issues no repair call
OtherHandlersFail ==
  /\ \A reply \in {r \in GenerateReplies : ~IsThrow(r) /\ ~Is2xx(r.status)} :
       /\ afterGenerate(DefaultModel, reply).payload = Undefined
       /\ afterGenerate(DefaultModel, reply).response.status >= 400
       /\ Get(afterGenerate(DefaultModel, reply).response.body, "status")
            = Num(reply.status)
       /\ Get(afterGenerate(DefaultModel, reply).response.body, "details")
            = reply.data
  /\ \A reply \in {r \in JsonReplies : ~IsThrow(r) /\ ~Is2xx(r.status)} :
       /\ jsonFirst(Cur, reply).pc = "done"
       /\ jsonFirst(Cur, reply).promptLog = promptLog
       /\ jsonFirst(Cur, reply).response.status >= 400
       /\ Get(jsonFirst(Cur, reply).response.body, "status") = Num(reply.status)
       /\ Get(jsonFirst(Cur, reply).response.body, "details") = reply.data

KeyMissing ==
  Obj([error |-> Msg("Missing GEMINI_API_KEY environment variable")])

\* C13: with no API key configured a request, whatever its method and body,
\* meets no upstream call and can only end with the 500 answer that carries
\* the configuration error message, in the JSON-forcing handler and in the
\* cache handler of part_000.
C13_NoKeyNoCall ==
  /\ ~request.key
       => /\ promptLog = <<>> /\ script = <<>>
          /\ pc \in {"idle", "done"}
          /\ pc = "done" => response = [status |-> 500, body |-> KeyMissing]
  /\ \A r \in ServerRequests :
       handler([r EXCEPT !.key = FALSE], serverCache, now)
         = Answer(500, "", KeyMissing)

\* C13 witness: a GET that arrived without a key has its 500 answer.
C13_Witness ==
  ~request.key /\ request.method = "GET" /\ pc = "done"

\* a parsed text lacks a section: the text is empty once trimmed, the list
\* has no item left once its empty items are dropped
Lacks(parsed, k) ==
  IF k \in {"simpleExplanation", "realWorldExample"}
  THEN TrimmedString(Get(parsed, k)) = <<>>
  ELSE StringItems(Get(parsed, k)).a = <<>>

\* the text of a 2xx reply parses (to a value that is not null, false or "")
ParsedText(r) == tryParseTutorJSON(getTextFromGeminiResponse(r.data).s)

RepairDue(r) ==
  /\ ReplyOk(r)
  /\ \/ ~Truthy(ParsedText(r))
     \/ \E k \in {"simpleExplanation", "realWorldExample", "keyCommands",
                  "commonMistakes"} : Lacks(ParsedText(r), k)

\* C19: a POST meets at most two upstream calls; the second, the repair call,
\* is issued if and only if the primary call was 2xx and its text did not
\* parse or lacks simpleExplanation, realWorldExample, keyCommands or
\* commonMistakes; whatever the repair call brings, the answer follows.
C19_AtMostOneRepair ==
  /\ Len(promptLog) <= 2
  /\ pc \in {"idle", "first", "repair", "done"}
  /\ pc = "repair" => Len(promptLog) = 2
  /\ (pc \in {"repair", "done"} /\ script # <<>>)
       => (Len(promptLog) = 2 <=> RepairDue(script[1]))

\* C19 witness: the repair call failed and the handler has answered.
C19_Witness ==
  /\ pc = "done" /\ Len(script) = 2 /\ Len(promptLog) = 2
  /\ ~ReplyOk(script[2])

\* C20: when the primary call was 2xx the answer is 200 with a data object of
\* all six fields, the title not empty and no list item empty, whatever the
\* texts and the outcome of the repair call; when neither text parses,
\* data.simpleExplanation is the primary raw text, or "No explanation
\* available." when that text is empty.
C20_AlwaysSixFields ==
  (pc = "done" /\ script # <<>> /\ ReplyOk(script[1]))
    => /\ response.status = 200
       /\ IsAiTutorResult(Get(response.body, "data"))
       /\ Truthy(Get(response.body, "data").o.title)
       /\ \A k \in {"keyCommands", "commonMistakes", "quickCheck"} :
            \A i \in DOMAIN Get(response.body, "data").o[k].a :
              Truthy(Get(response.body, "data").o[k].a[i])
       /\ (/\ ~Truthy(ParsedText(script[1]))
           /\ Len(script) = 2 => ~(ReplyOk(script[2]) /\ Truthy(ParsedText(script[2]))))
            => Get(response.body, "data").o.simpleExplanation
                 = OrElse(getTextFromGeminiResponse(script[1].data), NoExplanation)

\* C14: no explainConcept call is still waiting for its fetch when the clock
\* has gone on by more than the timeout: by then the call was aborted and its
\* error surfaced.  (An advance of the clock is a quarter of an hour here,
\* far beyond a timeout of seconds.)
C14_NoCallOutlivesTimeout ==
  (side = "client" /\ lastStep.op = "tick") => calls = <<>>

----------------------------------------------------------------------------
(* App.tsx: navigation, login and the Pro entitlement.  Three revisions:   *)
(* "local" (App.tsx, local login, gate on user.isPro), "proNow" (Clerk     *)
(* sign-in, gate on the stored flag, Resume button) and "appUser" (Clerk   *)
(* sign-in, gate on appUser.isPro).                                         *)

True == <<"t", "r", "u", "e">>

\* isPremiumValue: String(v ?? "").trim().toLowerCase() is one of six words
isPremiumValue(v) ==
  LET s == [i \in 1..Len(TrimmedString(v)) |-> Lower(TrimmedString(v)[i])]
  IN s \in {True, <<"1">>, <<"y", "e", "s">>, <<"y">>, <<"p", "r", "o">>,
            <<"p", "r", "e", "m", "i", "u", "m">>}

\* the rows of the decks file: a free deck and a premium one in domain 1
FreeDeck ==
  [deck_id |-> S(<<"f">>), deck_name |-> S(<<"F", "r", "e", "e">>),
   is_premium |-> Undefined, domain_int |-> 1]

ProDeck ==
  [deck_id |-> S(<<"p">>), deck_name |-> S(<<"P", "r", "o">>),
   is_premium |-> S(<<" ", "Y", "e", "s">>), domain_int |-> 1]

Decks == {FreeDeck, ProDeck}

\* the rows of the cards file: card id and deck
DeckCards ==
  {[card_id |-> S(<<"x">>), deck_id |-> S(<<"f">>)],
   [card_id |-> S(<<"z">>), deck_id |-> S(<<"f">>)],
   [card_id |-> S(<<"y">>), deck_id |-> S(<<"p">>)]}

\* CCNA_DOMAINS: id and subtitle
Domains ==
  {[id |-> 1, subtitle |-> S(<<"N", "e", "t">>)],
   [id |-> 2, subtitle |-> S(<<"A", "c", "c">>)]}

\* whether the deck with this id is a premium deck of the decks file
PremiumId(id) == \E d \in Decks : d.deck_id = id /\ isPremiumValue(d.is_premium)

\* localStorage.getItem('ccna_isPro') === 'true'
isProPersistent(store) == store.ccna_isPro = S(True)

User(email, isPro, isGuest) ==
  Obj([email |-> S(email), isPro |-> Bool(isPro), isGuest |-> Bool(isGuest)])

GuestEmail == <<"G", "u", "e", "s", "t">>
UserEmail == <<"u", "@", "e", ".", "c">>

\* the query part of the address: URLSearchParams.get gives null for a
\* parameter that is absent
Query(success, canceled, deckId, deckName) ==
  [success |-> success, canceled |-> canceled, deckId |-> deckId,
   deckName |-> deckName]

NoQuery == Query(Null, Null, Null, Null)

\* the addresses the page is opened with: plain, back from a paid checkout
\* with and without a deck, with an empty deck id, back from a canceled one,
\* and a deck without success
Urls ==
  {NoQuery,
   Query(S(True), Null, Null, Null),
   Query(S(True), Null, ProDeck.deck_id, ProDeck.deck_name),
   Query(S(True), Null, FreeDeck.deck_id, Null),
   Query(S(True), Null, S(<<>>), Null),
   Query(Null, S(True), Null, Null),
   Query(Null, Null, ProDeck.deck_id, ProDeck.deck_name)}

\* startStripeCheckout (simulator): the success address it redirects to
successUrl(deckId, deckName) ==
  Query(S(True), Null,
        IF Truthy(deckId) THEN deckId ELSE Null,
        IF Truthy(deckName) THEN deckName ELSE Null)

Store(u, p, m, l, n) ==
  [ccna_user |-> u, ccna_isPro |-> p, ccna_mastery |-> m,
   ccna_lastDeckId |-> l, ccna_lastDeckName |-> n]

\* what the browser holds when the page is first opened: nothing, a saved
\* user, a saved user that does not parse, a purchase
Stores ==
  {Store(Null, Null, Null, Null, Null),
   Store(S(Stringify(User(UserEmail, FALSE, FALSE))), Null,
         S(Stringify(Arr(<<S(<<"x">>)>>))), Null, Null),
   Store(S(<<"{">>), Null, S(<<"[">>), Null, Null),
   Store(Null, S(True), Null, Null, Null)}

\* the mastered ids as a Set keeps them: in insertion order, each once
SetOf(a) ==
  LET RECURSIVE put(_, _)
      put(i, acc) ==
        IF i > Len(a) THEN acc
        ELSE put(i + 1, IF \E j \in DOMAIN acc : acc[j] = a[i] THEN acc
                        ELSE Append(acc, a[i]))
  IN put(1, <<>>)

\* load effect of the mastery: new Set(JSON.parse(saved)), the empty set when
\* nothing is saved or the text does not parse
loadMastery(store) ==
  LET parsed(v) == IF v.t = "array" THEN SetOf(v.a) ELSE <<>>
  IN IF ~Truthy(store.ccna_mastery) THEN <<>>
     ELSE parsed(tryParseJson(store.ccna_mastery.s))

\* save effect of the mastery: JSON.stringify(Array.from(masteredIds))
saveMastery(ids) == S(Stringify(Arr(ids)))

\* session load effect of the "local" revision: the user, the view and the
\* stored user after it
loadSession(store) ==
  LET parsed(v) ==
        IF v = Null /\ store.ccna_user.s # <<"n", "u", "l", "l">>
        THEN [user |-> Null, view |-> "login", ccna_user |-> Null]
        ELSE IF Truthy(v) /\ Truthy(Get(v, "email"))
        THEN [user |-> Obj([isPro |-> Bool(isProPersistent(store))] @@ v.o),
              view |-> "domainSelect", ccna_user |-> store.ccna_user]
        ELSE [user |-> Null, view |-> "login", ccna_user |-> store.ccna_user]
  IN IF Truthy(store.ccna_user) THEN parsed(tryParseJson(store.ccna_user.s))
     ELSE IF isProPersistent(store)
     THEN [user |-> User(GuestEmail, TRUE, TRUE), view |-> "domainSelect",
           ccna_user |-> store.ccna_user]
     ELSE [user |-> Null, view |-> "login", ccna_user |-> store.ccna_user]

\* the cards of the deck studied, in file order
CardRows ==
  <<[card_id |-> S(<<"x">>), deck_id |-> FreeDeck.deck_id],
    [card_id |-> S(<<"z">>), deck_id |-> FreeDeck.deck_id],
    [card_id |-> S(<<"y">>), deck_id |-> ProDeck.deck_id]>>

\* deckCards: the cards of selectedDeckId, in the "local" revision of
\* selectedDeckId || attemptedDeckId
targetDeckId(r, selected, attempted) ==
  IF r = "local" THEN OrElse(selected, attempted) ELSE selected

studyCards(r, selected, attempted) ==
  SelectSeq(CardRows,
            LAMBDA c : c.deck_id = targetDeckId(r, selected, attempted))

\* the state of the App after the mount effects that do not wait: the session
\* load of the "local" revision, the mastery load and save
Mounted(r, store, u) ==
  LET session == IF r = "local" THEN loadSession(store)
                 ELSE [user |-> Null, view |-> "login",
                       ccna_user |-> store.ccna_user]
      mastered == loadMastery(store)
  IN [view |-> session.view, user |-> session.user, masteredIds |-> mastered,
      storage |-> [store EXCEPT !.ccna_user = session.ccna_user,
                                !.ccna_mastery = saveMastery(mastered)],
      url |-> u, clerk |-> IF r = "local" THEN "none" ELSE "loading"]

InitNav ==
  /\ navRev \in {"local", "proNow", "appUser"}
  /\ \E store \in Stores : \E u \in Urls :
     \E m \in {Mounted(navRev, store, u)} :
       /\ view = m.view /\ user = m.user /\ masteredIds = m.masteredIds
       /\ storage = m.storage /\ url = m.url /\ clerk = m.clerk
  /\ selectedDomainId = Null /\ selectedDomainName = Null
  /\ selectedDeckId = Null /\ selectedDeckName = Null
  /\ attemptedDeckId = Null /\ attemptedDeckName = Null
  /\ currentIndex = 0 /\ isShuffled = FALSE
  /\ isDataLoading = TRUE /\ dataError = Null /\ paid = FALSE
  /\ lastNav = NoStep
  /\ IdleNorm /\ IdleApp /\ IdleCont /\ IdleCache

\* a step of the App that the history does not tell from others
OtherStep == [op |-> "other"]

NavRest == UNCHANGED <<navRev, normVars, appVars, contVars, cacheVars>>

\* the page is opened anew with the query u over the stored items store
Opens(store, u) ==
  /\ \E m \in {Mounted(navRev, store, u)} :
       /\ view' = m.view /\ user' = m.user /\ masteredIds' = m.masteredIds
       /\ storage' = m.storage /\ url' = m.url /\ clerk' = m.clerk
  /\ selectedDomainId' = Null /\ selectedDomainName' = Null
  /\ selectedDeckId' = Null /\ selectedDeckName' = Null
  /\ attemptedDeckId' = Null /\ attemptedDeckName' = Null
  /\ currentIndex' = 0 /\ isShuffled' = FALSE
  /\ isDataLoading' = TRUE /\ dataError' = Null /\ paid' = FALSE
  /\ lastNav' = OtherStep
  /\ NavRest

\* the App renders its views: the data is loaded, and with Clerk the user
\* is signed in
Visible ==
  /\ ~isDataLoading /\ dataError = Null
  /\ navRev # "local" => clerk = "in"

\* the learner opens the page, or reloads it (the Retry button)
Reload == \E u \in Urls : Opens(storage, u)

\* the paywall button: startStripeCheckout redirects to its success address
Checkout ==
  /\ Visible /\ view = "paywall"
  /\ Opens(storage, successUrl(attemptedDeckId, attemptedDeckName))

\* fetchData after its await: the data is there, and the return from the
\* checkout is handled
DataLoaded ==
  /\ isDataLoading
  /\ isDataLoading' = FALSE
  /\ IF url.success = S(True)
     THEN /\ storage' = [storage EXCEPT !.ccna_isPro = S(True)]
          /\ user' = IF navRev = "proNow" /\ Truthy(user)
                     THEN Obj([isPro |-> Bool(TRUE)] @@ user.o) ELSE user
          /\ IF Truthy(url.deckId)
             THEN /\ selectedDeckId' = url.deckId
                  /\ selectedDeckName' = url.deckName
                  /\ view' = "study"
             ELSE UNCHANGED <<selectedDeckId, selectedDeckName, view>>
          /\ url' = NoQuery
          /\ paid' = TRUE
     ELSE /\ url' = IF url.canceled = S(True) THEN NoQuery ELSE url
          /\ UNCHANGED <<storage, user, selectedDeckId, selectedDeckName,
                         view, paid>>
  /\ lastNav' = [op |-> "loaded", success |-> url.success = S(True),
                 deckId |-> url.deckId]
  /\ UNCHANGED <<selectedDomainId, selectedDomainName, attemptedDeckId,
                 attemptedDeckName, currentIndex, isShuffled, masteredIds,
                 dataError, clerk>>
  /\ NavRest

\* fetchData: loadDecks or loadCards rejects
DataFails ==
  /\ isDataLoading
  /\ isDataLoading' = FALSE
  /\ dataError' = S(<<"F", "a", "i", "l", "e", "d">>)
  /\ lastNav' = OtherStep
  /\ UNCHANGED <<view, user, selectedDomainId, selectedDomainName,
                 selectedDeckId, selectedDeckName, attemptedDeckId,
                 attemptedDeckName, currentIndex, isShuffled, masteredIds,
                 storage, url, clerk, paid>>
  /\ NavRest

\* useUser() changes: Clerk has loaded, the user signs in or out; the two
\* effects set the view and the app user
ClerkSettles ==
  /\ navRev # "local"
  /\ \E signedIn \in BOOLEAN :
       /\ clerk # (IF signedIn THEN "in" ELSE "out")
       /\ clerk' = IF signedIn THEN "in" ELSE "out"
       /\ view' = IF signedIn THEN "domainSelect" ELSE "login"
       /\ user' = IF signedIn
                  THEN User(UserEmail, isProPersistent(storage), FALSE)
                  ELSE Null
       /\ lastNav' = OtherStep
  /\ UNCHANGED <<selectedDomainId, selectedDomainName, selectedDeckId,
                 selectedDeckName, attemptedDeckId, attemptedDeckName,
                 currentIndex, isShuffled, masteredIds, storage, url,
                 isDataLoading, dataError, paid>>
  /\ NavRest

\* handleLogin: the new user takes the stored entitlement
newUser(asGuest, store) ==
  User(IF asGuest THEN GuestEmail ELSE UserEmail, isProPersistent(store),
       asGuest)

HandleLogin ==
  /\ navRev = "local" /\ Visible /\ view = "login"
  /\ \E asGuest \in BOOLEAN :
       /\ user' = newUser(asGuest, storage)
       /\ storage' = [storage EXCEPT
                        !.ccna_user = S(Stringify(newUser(asGuest, storage)))]
       /\ lastNav' = [op |-> "login", after |-> lastNav.op,
                      isPro |-> IF lastNav.op = "logout" THEN lastNav.isPro
                                ELSE isProPersistent(storage),
                      userPro |-> IF lastNav.op = "logout"
                                  THEN lastNav.userPro
                                  ELSE isProPersistent(storage)]
  /\ view' = "domainSelect"
  /\ UNCHANGED <<selectedDomainId, selectedDomainName, selectedDeckId,
                 selectedDeckName, attemptedDeckId, attemptedDeckName,
                 currentIndex, isShuffled, masteredIds, url, isDataLoading,
                 dataError, clerk, paid>>
  /\ NavRest

\* handleLogout, the stored items after it: localStorage.removeItem('ccna_user')
removeUser(store) == [store EXCEPT !.ccna_user = Null]

\* handleLogout (the header button, shown with a user outside the login view)
HandleLogout ==
  /\ navRev = "local" /\ Visible /\ view # "login" /\ user # Null
  /\ storage' = removeUser(storage)
  /\ user' = Null /\ view' = "login"
  /\ selectedDomainId' = Null /\ selectedDomainName' = Null
  /\ selectedDeckId' = Null /\ selectedDeckName' = Null
  /\ attemptedDeckId' = Null /\ attemptedDeckName' = Null
  /\ currentIndex' = 0 /\ isShuffled' = FALSE
  /\ lastNav' = [op |-> "logout", isPro |-> isProPersistent(storage),
                 userPro |-> Truthy(Get(user, "isPro"))]
  /\ UNCHANGED <<masteredIds, url, isDataLoading, dataError, clerk, paid>>
  /\ NavRest

\* a domain card of the dashboard
SelectDomain ==
  /\ Visible /\ view = "domainSelect"
  /\ navRev = "local" => user # Null
  /\ \E domain \in Domains :
       /\ selectedDomainId' = Num(domain.id)
       /\ selectedDomainName' = domain.subtitle
       /\ lastNav' = OtherStep
  /\ view' = "deckSelect"
  \* studyCards depends on selectedDomainId, and the "local" revision starts
  \* the deck over when studyCards changes
  /\ currentIndex' = IF navRev = "local" /\ selectedDomainId' # selectedDomainId
                     THEN 0 ELSE currentIndex
  /\ UNCHANGED <<user, selectedDeckId, selectedDeckName, attemptedDeckId,
                 attemptedDeckName, isShuffled, masteredIds, storage, url,
                 isDataLoading, dataError, clerk, paid>>
  /\ NavRest

\* the entitlement handleDeckSelect goes by: user?.isPro, appUser?.isPro, or
\* the stored flag read at the click
proAtSelect(r, u, store) ==
  IF r = "proNow" THEN isProPersistent(store) ELSE Truthy(Get(u, "isPro"))

\* handleDeckSelect: premium && !pro goes to the paywall
lockedIfPro(premium, pro) == premium /\ pro

locked(premium, pro) == premium /\ ~pro

\* domainDecksList: the decks of the selected domain
domainDecksList(domainId) ==
  {d \in Decks : Truthy(domainId) /\ Num(d.domain_int) = domainId}

HandleDeckSelect ==
  /\ Visible /\ view = "deckSelect"
  /\ \E deck \in domainDecksList(selectedDomainId) :
     \E premium \in {isPremiumValue(deck.is_premium)} :
     \E pro \in {proAtSelect(navRev, user, storage)} :
       /\ IF locked(premium, pro)
          THEN /\ attemptedDeckId' = deck.deck_id
               /\ attemptedDeckName' = deck.deck_name
               /\ view' = "paywall"
               /\ currentIndex' =
                    IF navRev = "local" /\ attemptedDeckId # deck.deck_id
                    THEN 0 ELSE currentIndex
               /\ UNCHANGED <<selectedDeckId, selectedDeckName, storage>>
          ELSE /\ storage' =
                    IF navRev = "proNow"
                    THEN [storage EXCEPT !.ccna_lastDeckId = deck.deck_id,
                                         !.ccna_lastDeckName = deck.deck_name]
                    ELSE storage
               /\ selectedDeckId' = deck.deck_id
               /\ selectedDeckName' = deck.deck_name
               /\ attemptedDeckId' = IF navRev = "local" THEN Null
                                     ELSE attemptedDeckId
               /\ attemptedDeckName' = IF navRev = "local" THEN Null
                                       ELSE attemptedDeckName
               /\ currentIndex' = 0
               /\ view' = "study"
       /\ lastNav' = [op |-> "deck", deck_id |-> deck.deck_id,
                      premium |-> premium, pro |-> pro,
                      selected |-> selectedDeckId]
  /\ UNCHANGED <<user, selectedDomainId, selectedDomainName, isShuffled,
                 masteredIds, url, isDataLoading, dataError, clerk, paid>>
  /\ NavRest

\* the views the back controls lead to: the header back button, Back to
\* Domains, Return to Decks, Maybe later
backTargets ==
  CASE view = "deckSelect" -> {"domainSelect"}
    [] view = "study" ->
         IF navRev = "local" /\ user = Null
            /\ studyCards(navRev, selectedDeckId, attemptedDeckId) # <<>>
         THEN {} ELSE {"deckSelect"}
    [] view = "paywall" ->
         {"deckSelect"} \cup (IF navRev = "appUser" THEN {"domainSelect"} ELSE {})
    [] OTHER -> {}

GoBack ==
  /\ Visible
  /\ \E target \in backTargets :
       /\ view' = target
       /\ lastNav' = OtherStep
  /\ UNCHANGED <<user, selectedDomainId, selectedDomainName, selectedDeckId,
                 selectedDeckName, attemptedDeckId, attemptedDeckName,
                 currentIndex, isShuffled, masteredIds, storage, url,
                 isDataLoading, dataError, clerk, paid>>
  /\ NavRest

\* canResume: a last deck is stored and the decks file has it
canResume(store) ==
  Truthy(store.ccna_lastDeckId)
    /\ \E d \in Decks : d.deck_id = store.ccna_lastDeckId

\* the Resume button of the dashboard ("proNow")
ResumeLastDeck ==
  /\ navRev = "proNow" /\ Visible /\ view = "domainSelect"
  /\ canResume(storage)
  /\ selectedDeckId' = storage.ccna_lastDeckId
  /\ selectedDeckName' =
       OrElse(storage.ccna_lastDeckName, S(<<"L", "a", "s", "t">>))
  /\ view' = "study"
  /\ lastNav' = [op |-> "resume", deck_id |-> storage.ccna_lastDeckId]
  /\ UNCHANGED <<user, selectedDomainId, selectedDomainName, attemptedDeckId,
                 attemptedDeckName, currentIndex, isShuffled, masteredIds,
                 storage, url, isDataLoading, dataError, clerk, paid>>
  /\ NavRest

\* the Clear Resume button: the last deck is forgotten and the page reloads
ClearResume ==
  /\ navRev = "proNow" /\ Visible /\ view = "domainSelect"
  /\ Opens([storage EXCEPT !.ccna_lastDeckId = Null,
                           !.ccna_lastDeckName = Null], url)

\* the card shown: studyCards[activeIndex], any card of the deck when the
\* deck is shuffled
currentCards ==
  LET cs == studyCards(navRev, selectedDeckId, attemptedDeckId)
  IN IF isShuffled THEN {cs[i] : i \in DOMAIN cs}
     ELSE {cs[i] : i \in DOMAIN cs \cap {currentIndex + 1}}

\* toggleMastery of the card shown, and the save effect
toggleMastery(ids, id) ==
  IF \E i \in DOMAIN ids : ids[i] = id
  THEN SelectSeq(ids, LAMBDA x : x # id) ELSE Append(ids, id)

ToggleMastery ==
  /\ Visible /\ view = "study"
  /\ \E card \in currentCards :
       /\ masteredIds' = toggleMastery(masteredIds, card.card_id)
       /\ storage' = [storage EXCEPT !.ccna_mastery = saveMastery(masteredIds')]
       /\ lastNav' = OtherStep
  /\ UNCHANGED <<view, user, selectedDomainId, selectedDomainName,
                 selectedDeckId, selectedDeckName, attemptedDeckId,
                 attemptedDeckName, currentIndex, isShuffled, url,
                 isDataLoading, dataError, clerk, paid>>
  /\ NavRest

\* the previous and next buttons of the study view
StepCard ==
  /\ Visible /\ view = "study"
  /\ \E n \in {Len(studyCards(navRev, selectedDeckId, attemptedDeckId))} :
     \E d \in {1, n - 1} :
       /\ n > 0
       /\ currentIndex' = (currentIndex + d) % n
       /\ lastNav' = OtherStep
  /\ UNCHANGED <<view, user, selectedDomainId, selectedDomainName,
                 selectedDeckId, selectedDeckName, attemptedDeckId,
                 attemptedDeckName, isShuffled, masteredIds, storage, url,
                 isDataLoading, dataError, clerk, paid>>
  /\ NavRest

\* the Shuffle button ("local"): the indices are shuffled anew and the deck
\* starts over
Shuffle ==
  /\ navRev = "local" /\ Visible /\ view = "study"
  /\ studyCards(navRev, selectedDeckId, attemptedDeckId) # <<>>
  /\ isShuffled' = ~isShuffled
  /\ currentIndex' = 0
  /\ lastNav' = OtherStep
  /\ UNCHANGED <<view, user, selectedDomainId, selectedDomainName,
                 selectedDeckId, selectedDeckName, attemptedDeckId,
                 attemptedDeckName, masteredIds, storage, url, isDataLoading,
                 dataError, clerk, paid>>
  /\ NavRest

NextNav ==
  \/ Reload
  \/ Checkout
  \/ DataLoaded
  \/ DataFails
  \/ ClerkSettles
  \/ HandleLogin
  \/ HandleLogout
  \/ SelectDomain
  \/ HandleDeckSelect
  \/ GoBack
  \/ ResumeLastDeck
  \/ ClearResume
  \/ ToggleMastery
  \/ StepCard
  \/ Shuffle

SpecNav == InitNav /\ [][NextNav]_vars

----------------------------------------------------------------------------
(* Claims about the navigation and the entitlement *)

\* Claim C21: handleLogout resets the user, the view (to login), the selected
\* domain and deck, the attempted deck, the card index and the shuffle flag
\* and removes the stored user, and leaves the stored entitlement ccna_isPro
\* and the stored mastered set as they were; after the login that follows
\* the user is Pro exactly if the user was Pro before the logout.
C21_LogoutKeepsProStatus ==
  [][/\ lastNav'.op = "logout" =>
          /\ user' = Null /\ view' = "login"
          /\ selectedDomainId' = Null /\ selectedDomainName' = Null
          /\ selectedDeckId' = Null /\ selectedDeckName' = Null
          /\ attemptedDeckId' = Null /\ attemptedDeckName' = Null
          /\ currentIndex' = 0 /\ isShuffled' = FALSE
          /\ storage'.ccna_user = Null
          /\ storage'.ccna_isPro = storage.ccna_isPro
          /\ storage'.ccna_mastery = storage.ccna_mastery
          /\ masteredIds' = masteredIds
     /\ (lastNav'.op = "login" /\ lastNav.op = "logout") =>
          /\ isProPersistent(storage') = lastNav.isPro
          /\ Truthy(Get(user', "isPro")) = lastNav.userPro]_vars

\* the deck whose cards the study view shows
ShownDeck == targetDeckId(navRev, selectedDeckId, attemptedDeckId)

\* Claim C22: whenever the study view shows a premium deck the entitlement
\* ccna_isPro is stored; every step into the study view with a premium deck
\* (deck selection, Resume, return from the checkout) ends with the
\* entitlement stored; and a selection of a premium deck without the
\* entitlement leads to the paywall, with the deck as the attempted deck and
\* the selected deck as it was.
C22_PremiumStudyNeedsPro ==
  /\ [](view = "study" /\ PremiumId(ShownDeck) => isProPersistent(storage))
  /\ [][/\ (view' = "study" /\ PremiumId(ShownDeck') /\ lastNav'.op = "deck")
            => isProPersistent(storage) /\ lastNav'.pro
        /\ (view' = "study" /\ PremiumId(ShownDeck')
              /\ lastNav'.op \in {"resume", "loaded"})
            => isProPersistent(storage')
        /\ (lastNav'.op = "deck" /\ lastNav'.premium
              /\ ~isProPersistent(storage))
            => /\ view' = "paywall"
               /\ attemptedDeckId' = lastNav'.deck_id
               /\ PremiumId(attemptedDeckId')
               /\ selectedDeckId' = selectedDeckId
               /\ selectedDeckName' = selectedDeckName]_vars

\* a premium deck was selected and is studied
C22_Witness ==
  /\ view = "study" /\ PremiumId(ShownDeck) /\ lastNav.op = "deck"
  /\ lastNav.premium /\ lastNav.deck_id = selectedDeckId

\* Claim C23: once a page load has handled a checkout return with
\* success=true the entitlement is stored, and every later selection of a
\* premium deck in that page load leads to the study view, not to the paywall.
C23_PaidIsProAtOnce ==
  /\ [](paid => isProPersistent(storage))
  /\ [][(paid /\ lastNav'.op = "deck" /\ lastNav'.premium)
          => view' = "study" /\ selectedDeckId' = lastNav'.deck_id]_vars

----------------------------------------------------------------------------
(* Claims about the tutor pane and the requests in flight *)

\* Claim C24: when the learner has closed the tutor pane while an explain
\* request was in flight, the pane stays closed (aiExplanation null, aiLoading
\* false) through every step that is not a new handleExplain: the late
\* response does not open it again.
C24_ClosedPaneStaysClosed ==
  [][(side = "client" /\ lastStep.op = "close" /\ calls # <<>>
        /\ lastStep'.op # "explain")
      => (aiExplanation' = Null /\ ~aiLoading')]_vars

\* Claim C25: with two explain requests overlapping, once a response has
\* been taken and no call is left the explanation shown is that of the
\* concept asked for last (currentConcept), and aiLoading is true as long as
\* the call asked for last awaits its response.
C25_LatestRequestWins ==
  /\ (side = "client" /\ lastStep.op = "settle" /\ ~lastStep.threw
        /\ calls = <<>>)
     => lastStep.pair[1] = currentConcept
  /\ (side = "client" /\ lastStep.op = "settle" /\ calls # <<>>
        /\ calls[Len(calls)].concept.s = currentConcept)
     => aiLoading

----------------------------------------------------------------------------
(* Claims about the answers of the handlers *)

\* the upstream reply whose text was appended last to the text returned: the
\* first reply, or the last continuation that was appended (the loops end at
\* the first continuation that is not)
LastAppended == script[1 + Len(seams)]

\* the auto-continue handler has answered 200 with a text
TextAnswered ==
  /\ rev \in {"while", "for", "single"} /\ pc = "done"
  /\ response.status = 200 /\ Get(response.body, "text") # Undefined

\* Claim C26: the finishReason of the 200 answer of the auto-continue handler
\* is MAX_TOKENS whenever the chunk appended last was truncated, also when
\* the loop ended on its bound or on a failed or empty continuation, and is
\* otherwise the finish reason of the chunk appended last (STOP standing in
\* for a reason the upstream left out).
C26_FinishReasonOfLastChunk ==
  TextAnswered =>
    \E fr \in {getFinishReason(LastAppended.data)} :
    \E told \in {Get(response.body, "finishReason")} :
      IF fr = MaxTokens THEN told = MaxTokens
      ELSE told = fr \/ (~Truthy(fr) /\ told = Stop)

\* the sections of a tutor result
Sections ==
  {"simpleExplanation", "realWorldExample", "keyCommands", "commonMistakes",
   "quickCheck"}

\* Claim C27: when the repair call settles, every section that the
\* normalized primary result had (a text that is not empty, a list with an
\* item) is there in the data of the final response, whatever the repair
\* call has returned.
C27_RepairLosesNothing ==
  [][(rev = "json" /\ pc = "repair" /\ pc' = "done" /\ out # Null)
      => \A k \in Sections :
           ~Lacks(out, k)
             => /\ response'.status = 200
                /\ ~Lacks(Get(response'.body, "data"), k)]_vars

\* the text an upstream message carries: the texts of the parts of its first
\* candidate in a row, nothing when the message is the [DONE] message or its
\* parts are not a list
textOfMessage(m) ==
  IF m.t = "string" \/ IsThrow(extractTextFromCandidate(m)) THEN <<>>
  ELSE extractTextFromCandidate(m).s

\* the texts of the upstream messages that carry text, in upstream order
upstreamTexts(messages) ==
  SelectSeq([i \in 1..Len(messages) |-> textOfMessage(messages[i])],
            LAMBDA cs : cs # <<>>)

\* the handler has relayed a stream whose upstream answered ok
Relayed ==
  /\ side = "server" /\ lastStep.op = "answer" /\ lastStep.stream
  /\ ~IsThrow(lastStep.upstream) /\ lastStep.upstream.ok

\* the names of the events of the stream answered, and the deltas of its
\* chunk events, in the order written
eventNames(body) == [i \in 1..Len(body.a) |-> body.a[i].o.event.m]
deltasOf(body) ==
  [i \in 1..(Len(body.a) - 2) |-> body.a[i + 1].o.data.o.delta.s]

\* Claim C28: a stream relayed from an upstream that answered ok is one meta
\* event, then one chunk event for every upstream message that carries text,
\* in upstream order and with that text, then one done event; the text set
\* in the cache is the deltas in a row, and is the texts of all upstream
\* messages in a row.
C28_StreamRelaysFaithfully ==
  Relayed =>
    \E body \in {lastStep.response.body} :
    \E entry \in {lastSet[ck(lastStep.pair[1], lastStep.pair[2])]} :
      /\ lastStep.response.status = 200 /\ lastStep.set
      /\ eventNames(body)
           = <<"meta">> \o [i \in 1..(Len(body.a) - 2) |-> "chunk"] \o <<"done">>
      /\ deltasOf(body) = upstreamTexts(lastStep.upstream.messages)
      /\ entry.value.o.text.s = Join(deltasOf(body), <<>>)
      /\ entry.value.o.text.s
           = Join(upstreamTexts(lastStep.upstream.messages), <<>>)

\* the upstream call answered 2xx (upstream.ok for a stream)
upstreamOk(reply) ==
  /\ ~IsThrow(reply)
  /\ IF reply.t = "stream" THEN reply.ok ELSE Is2xx(reply.status)

\* the latest step answered a request from the server cache: the JSON answer
\* with X-Cache HIT, or the stream whose meta event says cached
Replayed ==
  /\ side = "server" /\ lastStep.op = "post"
  /\ lastStep.response.t = "response" /\ lastStep.response.status = 200
  /\ \/ lastStep.response.xcache = "HIT"
     \/ /\ lastStep.response.body.t = "array"
        /\ lastStep.response.body.a[1].o.data.o.cached = Bool(TRUE)

\* the text a replayed answer carries
replayedText ==
  IF lastStep.response.body.t = "array"
  THEN lastStep.response.body.a[2].o.data.o.delta.s
  ELSE lastStep.response.body.o.text.s

\* Claim C29: the server cache is written only when the upstream call
\* answered 2xx and the text taken from it is not empty, so no entry of the
\* cache holds an empty text and no answer replayed from the cache, JSON or
\* stream, carries an empty text.
C29_OnlyUsableResultsCached ==
  /\ (side = "server" /\ lastStep.op = "answer" /\ lastStep.set)
       => /\ upstreamOk(lastStep.upstream)
          /\ lastSet[ck(lastStep.pair[1], lastStep.pair[2])].value.o.text.s # <<>>
  /\ \A key \in DOMAIN serverCache : serverCache[key].value.o.text.s # <<>>
  /\ Replayed => replayedText # <<>>

====
